---- MODULE Spec2Model ----
(***************************************************************************)
(* Host telemetry agent (monitoring-client): the multi-source fallback     *)
(* resolution of python/src/linux/linux.py, python/src/linux/CPU.py and    *)
(* python/src/windows/windows.py.                                          *)
(*                                                                         *)
(* The host (files, commands, the optional psutil library) is the          *)
(* variable env; one collection pass is one action that computes the       *)
(* returned record from env exactly as the code does, section by section.  *)
(*                                                                         *)
(* Encodings.  An Optional value is a tuple: <<>> is Python's None and     *)
(* <<v>> is the value v.  A float is an exact rational [n, d] in lowest    *)
(* terms.  Text that the code parses character by character is a sequence  *)
(* of one-character strings.                                               *)
(***************************************************************************)
EXTENDS Integers, Sequences, FiniteSets, TLC

VARIABLES
    env,      \* the host for this pass: what every data source will answer
    pc,       \* "start" | "returned" | "raised" | "import_error"
    result,   \* the record the pass returned (<<>> before it returns)
    calls     \* external commands invoked by the pass, in order

vars == <<env, pc, result, calls>>

----------------------------------------------------------------------------
(* Optional values and Python truthiness *)

None == <<>>
Some(v) == <<v>>

\* bool(x) of an Optional string: None and "" are falsy
TruthyStr(x) == x # None /\ x[1] # ""

\* a or b, for Optional strings
OrStr(a, b) == IF TruthyStr(a) THEN a ELSE b

----------------------------------------------------------------------------
(* Exact floats *)

Abs(i) == IF i < 0 THEN -i ELSE i

RECURSIVE GCD(_, _)
GCD(a, b) == IF b = 0 THEN a ELSE GCD(b, a % b)

Rat(n, d) ==
    LET g == GCD(Abs(n), d)
    IN  [n |-> n \div g, d |-> d \div g]

Flt(i) == [n |-> i, d |-> 1]
RatLess(a, b) == a.n * b.d < b.n * a.d
RatLeq(a, b) == a.n * b.d <= b.n * a.d
RatAdd(a, b) == Rat(a.n * b.d + b.n * a.d, a.d * b.d)
RatDivInt(a, k) == Rat(a.n, a.d * k)

\* bool(x) of an Optional float: None and 0.0 are falsy
TruthyNum(x) == x # None /\ x[1].n # 0

\* a or b, for Optional floats
OrNum(a, b) == IF TruthyNum(a) THEN a ELSE b

RECURSIVE SumRat(_)
SumRat(s) == IF s = <<>> THEN Flt(0) ELSE RatAdd(Head(s), SumRat(Tail(s)))

RECURSIVE MinRat(_)
MinRat(s) ==
    IF Len(s) = 1 THEN s[1]
    ELSE LET m == MinRat(Tail(s)) IN IF RatLeq(s[1], m) THEN s[1] ELSE m

RECURSIVE MaxRat(_)
MaxRat(s) ==
    IF Len(s) = 1 THEN s[1]
    ELSE LET m == MaxRat(Tail(s)) IN IF RatLeq(m, s[1]) THEN s[1] ELSE m

----------------------------------------------------------------------------
(* Text: the strings of the model, and the string functions the code uses *)

\* str.strip() on the command outputs of the model
Strip(s) ==
    CASE s = "kvm\n" -> "kvm"
      [] s = "none\n" -> "none"
      [] s = "NONE\n" -> "NONE"
      [] s = "\n" -> ""
      [] OTHER -> s

\* str.lower() on the command outputs of the model
Lower(s) ==
    CASE s = "NONE" -> "none"
      [] s = "None" -> "none"
      [] s = "KVM" -> "kvm"
      [] OTHER -> s

\* every string that can be a governor name, in Python's string order
StrOrder == <<"", "ondemand", "performance", "powersave", "schedutil">>

\* sorted(S) for a set S of strings
SortedStrs(S) == SelectSeq(StrOrder, LAMBDA g : g \in S)

DigitChars == <<"0", "1", "2", "3", "4", "5", "6", "7", "8", "9">>
Digits == {DigitChars[i] : i \in 1..10}
DigitVal(c) == (CHOOSE i \in 1..10 : DigitChars[i] = c) - 1

Pow10(k) == IF k = 0 THEN 1 ELSE IF k = 1 THEN 10 ELSE IF k = 2 THEN 100
            ELSE IF k = 3 THEN 1000 ELSE 10000

\* first index at or after i that is not a digit of s
RECURSIVE DigitRunEnd(_, _)
DigitRunEnd(s, i) ==
    IF i <= Len(s) /\ s[i] \in Digits THEN DigitRunEnd(s, i + 1) ELSE i

\* the number written by the digits s[i..j-1]
RECURSIVE DigitsValue(_, _, _)
DigitsValue(s, i, j) ==
    IF j <= i THEN 0 ELSE DigitsValue(s, i, j - 1) * 10 + DigitVal(s[j - 1])

\* re.match of [-+]?\d*\.?\d+ at index i of s: the index after the match, 0 if none
NumberMatchAt(s, i) ==
    LET j0 == IF i <= Len(s) /\ s[i] \in {"-", "+"} THEN i + 1 ELSE i
        j1 == DigitRunEnd(s, j0)
        frac == j1 + 1 <= Len(s) /\ s[j1] = "." /\ s[j1 + 1] \in Digits
    IN  IF frac THEN DigitRunEnd(s, j1 + 1)
        ELSE IF j1 > j0 THEN j1
        ELSE 0

\* float(text) of a matched number s[i..e-1]
NumberValue(s, i, e) ==
    LET neg == s[i] = "-"
        j0 == IF s[i] \in {"-", "+"} THEN i + 1 ELSE i
        j1 == DigitRunEnd(s, j0)
        frac == j1 < e
        k == IF frac THEN e - (j1 + 1) ELSE 0
        whole == DigitsValue(s, j0, j1)
        part == IF frac THEN DigitsValue(s, j1 + 1, e) ELSE 0
        mag == whole * Pow10(k) + part
    IN  Rat(IF neg THEN -mag ELSE mag, Pow10(k))

\* SafeFloat taking num[-1], the last match of re.findall
SafeFloatLastMatch(val) ==
    IF val = <<>> THEN <<>>
    ELSE IF "num" \in DOMAIN val[1] THEN <<val[1].num>>
    ELSE LET s == val[1].str
             starts == {i \in 1..Len(s) : NumberMatchAt(s, i) # 0}
         IN  IF starts = {} THEN <<>>
             ELSE LET i == CHOOSE x \in starts : \A y \in starts : x >= y
                  IN  <<NumberValue(s, i, NumberMatchAt(s, i))>>

\* _safe_float: None stays None, a number is float(val), a string gives the
\* first match of the number pattern, None when there is none
SafeFloat(val) ==
    IF val = None THEN None
    ELSE IF "num" \in DOMAIN val[1] THEN Some(val[1].num)
    ELSE LET s == val[1].str
             starts == {i \in 1..Len(s) : NumberMatchAt(s, i) # 0}
         IN  IF starts = {} THEN None
             ELSE LET i == CHOOSE x \in starts : \A y \in starts : x <= y
                  IN  Some(NumberValue(s, i, NumberMatchAt(s, i)))

\* a Python str held as characters, and a Python number
Str(chars) == [str |-> chars]
Num(r) == [num |-> r]

----------------------------------------------------------------------------
(* linux/CPU.py: external commands *)

\* _run_cmd: (returncode, stripped stdout); anything raised gives (1, "")
RunCmd(c) ==
    IF c.st = "ok" THEN [rc |-> c.rc, out |-> Strip(c.out)]
    ELSE [rc |-> 1, out |-> ""]

\* the keys of lscpu's output that collect_cpu_info reads
LscpuKeys == {"Hypervisor vendor", "Hypervisor vendor (in short)",
              "Virtualization type", "Virtualization",
              "CPU MHz", "CPU min MHz", "CPU max MHz",
              "Vendor ID", "CPU family", "Model name", "Model", "Stepping",
              "Microcode", "Socket(s)", "Core(s) per socket",
              "Thread(s) per core", "Architecture",
              "L1d cache", "L1i cache", "L2 cache", "L3 cache"}

EmptyDict == [k \in LscpuKeys |-> None]

\* bool(d) of a dict: it has a key
DictNonEmpty(d) == \E k \in DOMAIN d : d[k] # None

\* _parse_lscpu_json / _parse_lscpu_fallback: the command's document, {} when
\* the command fails, prints nothing, or (JSON) does not parse
ParseLscpuDoc(c) ==
    IF c.st # "ok" \/ c.rc # 0 \/ c.doc = "empty" \/ c.doc = "garbage"
    THEN EmptyDict ELSE c.fields

\* _parse_lscpu: JSON mode, else plain text
ParseLscpu(cj, ct) ==
    IF DictNonEmpty(ParseLscpuDoc(cj)) THEN ParseLscpuDoc(cj) ELSE ParseLscpuDoc(ct)

ParseLscpuCalls(cj) ==
    IF DictNonEmpty(ParseLscpuDoc(cj)) THEN <<"lscpu -J">> ELSE <<"lscpu -J", "lscpu">>

----------------------------------------------------------------------------
(* linux/CPU.py: the frequency sources *)

NoFreq == [current_mhz |-> None, min_mhz |-> None, max_mhz |-> None]

\* float(x) if x else None
FloatIfTruthy(x) == IF x.n # 0 THEN Some(x) ELSE None

\* _psutil_cpu_freq: psutil is the module (FALSE when the import failed), f is
\* what psutil.cpu_freq() does: raises, returns None, or returns a triple
PsutilCpuFreq(psutil, f) ==
    IF ~psutil THEN NoFreq
    ELSE IF f.st # "ok" THEN NoFreq
    ELSE [current_mhz |-> FloatIfTruthy(f.current),
          min_mhz |-> FloatIfTruthy(f.min),
          max_mhz |-> FloatIfTruthy(f.max)]

\* float(text) / 1000.0 of a cpufreq file; a missing or unparseable file raises
KhzToMhz(khz) == Rat(khz, 1000)

\* the try blocks reading scaling_min_freq / scaling_max_freq
AppendFreq(list, file) ==
    IF file.st = "ok" THEN Append(list, KhzToMhz(file.khz)) ELSE list

\* one turn of: for fname in ("scaling_cur_freq", "cpuinfo_cur_freq"): if exists: append
AppendCurrent(list, file) ==
    IF file.st = "absent" THEN list
    ELSE IF file.st = "ok" THEN Append(list, KhzToMhz(file.khz))
    ELSE list

\* UnitGovernors without the test "if gov:"
UnitGovernorsKeepEmpty(u) ==
    IF u.gov.st = "ok" THEN {u.gov.text} ELSE {}

\* the governors a unit adds to the set: its stripped scaling_governor if non-empty
UnitGovernors(u) ==
    IF u.gov.st = "ok" /\ u.gov.text # "" THEN {u.gov.text} ELSE {}

\* the body of the loop over units, on the accumulators
ScanUnit(u, acc) ==
    [governors |-> acc.governors \cup UnitGovernors(u),
     mins |-> AppendFreq(acc.mins, u.min),
     maxs |-> AppendFreq(acc.maxs, u.max),
     currents |-> AppendCurrent(AppendCurrent(acc.currents, u.scaling_cur),
                                u.cpuinfo_cur)]

EmptyScan == [governors |-> {}, mins |-> <<>>, maxs |-> <<>>, currents |-> <<>>]

\* for policy in sorted(base.glob("policy*")): ...
RECURSIVE ScanPolicies(_, _, _)
ScanPolicies(units, i, acc) ==
    IF i > Len(units) THEN acc
    ELSE ScanPolicies(units, i + 1, ScanUnit(units[i], acc))

\* for cpu in sorted(base.glob("cpu[0-9]*")): if not cpufreq.exists(): continue ...
RECURSIVE ScanCpus(_, _, _)
ScanCpus(cpus, i, acc) ==
    IF i > Len(cpus) THEN acc
    ELSE ScanCpus(cpus, i + 1,
                  IF cpus[i].cpufreq THEN ScanUnit(cpus[i].unit, acc) ELSE acc)

\* sorted(governors)
GovernorList(govs) == SortedStrs(govs)

\* the result dict built from the accumulators
Aggregate(acc) ==
    [governors |-> GovernorList(acc.governors),
     min_mhz |-> IF acc.mins # <<>> THEN Some(MinRat(acc.mins)) ELSE None,
     max_mhz |-> IF acc.maxs # <<>> THEN Some(MaxRat(acc.maxs)) ELSE None,
     current_mhz |-> IF acc.currents # <<>>
                     THEN Some(RatDivInt(SumRat(acc.currents), Len(acc.currents)))
                     ELSE None]

NoSysfs == [governors |-> <<>>, min_mhz |-> None, max_mhz |-> None, current_mhz |-> None]

\* _sysfs_cpufreq_cpu
SysfsCpufreqCpu(tree) ==
    IF ~tree.cpu_dir THEN NoSysfs
    ELSE Aggregate(ScanCpus(tree.cpus, 1, EmptyScan))

\* _sysfs_cpufreq_policy
SysfsCpufreqPolicy(tree) ==
    IF ~tree.cpufreq_dir THEN SysfsCpufreqCpu(tree)
    ELSE Aggregate(ScanPolicies(tree.policies, 1, EmptyScan))

----------------------------------------------------------------------------
(* linux/CPU.py: hypervisor detection *)

\* VirtConfirmed without the comparison with "none"
VirtConfirmedAnyOutput(r) == r.rc = 0 /\ r.out # ""

\* the test on systemd-detect-virt's answer
VirtConfirmed(r) == r.rc = 0 /\ r.out # "" /\ Lower(r.out) # "none"

\* _detect_hypervisor
DetectHypervisor(lscpu, virt_cmd) ==
    LET hv_vendor == OrStr(lscpu["Hypervisor vendor"], lscpu["Hypervisor vendor (in short)"])
        virt_type == OrStr(lscpu["Virtualization type"], lscpu["Virtualization"])
        is_vm == TruthyStr(hv_vendor) \/ TruthyStr(virt_type)
        r == RunCmd(virt_cmd)
    IN  IF ~is_vm /\ VirtConfirmed(r)
        THEN [hypervisor_vendor |-> Some(Strip(r.out)), virtualization_type |-> virt_type,
              is_virtual_machine |-> TRUE]
        ELSE [hypervisor_vendor |-> hv_vendor, virtualization_type |-> virt_type,
              is_virtual_machine |-> is_vm]

\* the commands _detect_hypervisor runs
DetectHypervisorCalls(lscpu) ==
    LET hv_vendor == OrStr(lscpu["Hypervisor vendor"], lscpu["Hypervisor vendor (in short)"])
        virt_type == OrStr(lscpu["Virtualization type"], lscpu["Virtualization"])
    IN  IF ~(TruthyStr(hv_vendor) \/ TruthyStr(virt_type))
        THEN <<"systemd-detect-virt --vm">> ELSE <<>>

----------------------------------------------------------------------------
(* linux/CPU.py: the remaining adapters *)

ProcKeys == {"vendor_id", "model name", "cpu family", "model", "stepping",
             "microcode", "flags", "Features"}

EmptyProc == [k \in ProcKeys |-> None]

\* _read_proc_cpuinfo: the records read before the file failed, and the first one
ReadProcCpuinfo(f) ==
    IF ~f.exists THEN [processors |-> <<>>, first |-> EmptyProc]
    ELSE IF ~f.readable THEN [processors |-> f.processors, first |-> EmptyProc]
    ELSE [processors |-> f.processors,
          first |-> IF f.processors # <<>> THEN f.processors[1] ELSE EmptyProc]

\* bool(x) of an Optional token list
TruthyList(x) == x # None /\ x[1] # <<>>

\* _cpu_flags_from_proc: the tokens of the flags line, else of the Features line
CpuFlagsFromProc(first) ==
    LET line == IF TruthyList(first["flags"]) THEN first["flags"] ELSE first["Features"]
    IN  IF TruthyList(line) THEN line[1] ELSE <<>>

\* _psutil_cpu_counts
PsutilCpuCounts(psutil, c) ==
    IF ~psutil \/ c.st # "ok" THEN [logical |-> None, physical |-> None]
    ELSE [logical |-> c.logical, physical |-> c.physical]

\* _psutil_temps
PsutilTemps(psutil, t) ==
    IF ~psutil \/ t.st # "ok" THEN <<>> ELSE t.readings

\* _get_loadavg
GetLoadavg(l) ==
    IF l.st # "ok" THEN [min1 |-> None, min5 |-> None, min15 |-> None]
    ELSE [min1 |-> Some(l.la1), min5 |-> Some(l.la5), min15 |-> Some(l.la15)]

\* _psutil_usage
PsutilUsage(psutil, u) ==
    IF ~psutil \/ u.st # "ok" THEN [overall_percent |-> None, per_cpu_percent |-> <<>>]
    ELSE [overall_percent |-> Some(u.overall), per_cpu_percent |-> u.per_cpu]

\* _extract_caches
ExtractCaches(lscpu) ==
    [L1d |-> lscpu["L1d cache"], L1i |-> lscpu["L1i cache"],
     L2 |-> lscpu["L2 cache"], L3 |-> lscpu["L3 cache"]]

\* _normalize_arch, on strings that are already lower-case and stripped
NormalizeArch(machine, lscpu_arch) ==
    IF TruthyStr(lscpu_arch) THEN Lower(lscpu_arch[1]) ELSE Lower(machine)

\* bool(x) of an Optional str held as characters
TruthyText(x) == x # None /\ x[1].str # <<>>

\* int(text): an optional sign and digits; anything else raises (None here)
ParseInt(s) ==
    LET j0 == IF Len(s) >= 1 /\ s[1] \in {"-", "+"} THEN 2 ELSE 1
    IN  IF j0 <= Len(s) /\ DigitRunEnd(s, j0) = Len(s) + 1
        THEN Some(IF s[1] = "-" THEN -DigitsValue(s, j0, Len(s) + 1)
                  ELSE DigitsValue(s, j0, Len(s) + 1))
        ELSE None

\* LscpuInt with the three coercions in one try: a field that does not parse
\* leaves every count unset
LscpuIntOneTry(lscpu, key) ==
    IF \E k \in {"Socket(s)", "Core(s) per socket", "Thread(s) per core"} :
          TruthyText(lscpu[k]) /\ ParseInt(lscpu[k][1].str) = <<>>
    THEN <<>>
    ELSE IF TruthyText(lscpu[key]) THEN ParseInt(lscpu[key][1].str) ELSE <<>>

\* int(lscpu.get(key, "")) if lscpu.get(key) else None, None when int() raises
LscpuInt(lscpu, key) ==
    IF TruthyText(lscpu[key]) THEN ParseInt(lscpu[key][1].str) ELSE None

\* the frequency cascade: psutil or sysfs or lscpu
ResolveFreq(from_psutil, from_sysfs, from_lscpu) ==
    OrNum(OrNum(from_psutil, from_sysfs), SafeFloat(from_lscpu))

\* collect_cpu_info: the record returned for the host e
CollectCpuInfoResult(e) ==
    LET lscpu == ParseLscpu(e.lscpu_json, e.lscpu_text)
        proc == ReadProcCpuinfo(e.cpuinfo)
        counts == PsutilCpuCounts(e.psutil, e.cpu_count)
        freq_psutil == PsutilCpuFreq(e.psutil, e.cpu_freq)
        freq_sysfs == SysfsCpufreqPolicy(e.sysfs)
        temps == PsutilTemps(e.psutil, e.sensors)
        loadavg == GetLoadavg(e.loadavg)
        usage == PsutilUsage(e.psutil, e.cpu_percent)
        hyper == DetectHypervisor(lscpu, e.detect_virt)
        caches == ExtractCaches(lscpu)
        first == proc.first
        flags == CpuFlagsFromProc(first)
        vendor == OrStr(OrStr(first["vendor_id"], lscpu["Vendor ID"]), lscpu["CPU family"])
        current_mhz == ResolveFreq(freq_psutil.current_mhz, freq_sysfs.current_mhz,
                                   lscpu["CPU MHz"])
        min_mhz == ResolveFreq(freq_psutil.min_mhz, freq_sysfs.min_mhz,
                               lscpu["CPU min MHz"])
        max_mhz == ResolveFreq(freq_psutil.max_mhz, freq_sysfs.max_mhz,
                               lscpu["CPU max MHz"])
        governors == freq_sysfs.governors
        NoneIfFalsy(x) == IF TruthyStr(x) THEN x ELSE None
    IN  [hostname |-> e.node,
         architecture |-> NormalizeArch(e.machine, lscpu["Architecture"]),
         vendor_id |-> NoneIfFalsy(vendor),
         model_name |-> NoneIfFalsy(OrStr(first["model name"], lscpu["Model name"])),
         family |-> NoneIfFalsy(OrStr(first["cpu family"], lscpu["CPU family"])),
         model |-> NoneIfFalsy(OrStr(first["model"], lscpu["Model"])),
         stepping |-> NoneIfFalsy(OrStr(first["stepping"], lscpu["Stepping"])),
         microcode |-> NoneIfFalsy(OrStr(first["microcode"], lscpu["Microcode"])),
         logical_cores |-> counts.logical,
         physical_cores |-> counts.physical,
         sockets |-> LscpuInt(lscpu, "Socket(s)"),
         cores_per_socket |-> LscpuInt(lscpu, "Core(s) per socket"),
         threads_per_core |-> LscpuInt(lscpu, "Thread(s) per core"),
         frequency_mhz |-> [current |-> current_mhz, min |-> min_mhz, max |-> max_mhz],
         cpufreq_governors |-> governors,
         usage_percent |-> [overall |-> usage.overall_percent,
                            per_cpu |-> usage.per_cpu_percent],
         load_average |-> loadavg,
         caches |-> caches,
         flags |-> flags,
         temperatures |-> temps,
         hypervisor |-> hyper,
         sources |-> [lscpu |-> DictNonEmpty(lscpu),
                      proc_cpuinfo |-> proc.processors # <<>>,
                      psutil |-> e.psutil,
                      sysfs_cpufreq |-> governors # <<>> \/ min_mhz # None \/ max_mhz # None],
         timestamp |-> e.clock]

\* the sources one pass of collect_cpu_info samples, in the order it samples them
CollectCpuInfoCalls(e) ==
    LET lscpu == ParseLscpu(e.lscpu_json, e.lscpu_text)
        P(name) == IF e.psutil THEN <<name>> ELSE <<>>
    IN  ParseLscpuCalls(e.lscpu_json) \o <<"/proc/cpuinfo">>
        \o P("psutil.cpu_count") \o P("psutil.cpu_freq") \o <<"sysfs cpufreq">>
        \o P("psutil.sensors_temperatures") \o <<"os.getloadavg">>
        \o P("psutil.cpu_percent") \o DetectHypervisorCalls(lscpu)
        \o <<"time.time">>

\* one run of linux/CPU.py collect_cpu_info
CollectCpuInfo ==
    /\ pc = "start"
    /\ result' = CollectCpuInfoResult(env)
    /\ calls' = CollectCpuInfoCalls(env)
    /\ pc' = "returned"
    /\ UNCHANGED env

----------------------------------------------------------------------------
(* Hosts for linux/CPU.py *)

CmdMissing == [st |-> "missing"]
NoTree == [cpufreq_dir |-> FALSE, policies |-> <<>>, cpu_dir |-> FALSE, cpus |-> <<>>]
FileAbsent == [st |-> "absent"]
FileBad == [st |-> "bad"]
File(khz) == [st |-> "ok", khz |-> khz]
GovFile(text) == [st |-> "ok", text |-> text]

\* a host with nothing installed and nothing readable
BareHost ==
    [psutil |-> FALSE,
     cpu_freq |-> [st |-> "raise"],
     cpu_count |-> [st |-> "raise"],
     sensors |-> [st |-> "raise"],
     loadavg |-> [st |-> "raise"],
     cpu_percent |-> [st |-> "raise"],
     sysfs |-> NoTree,
     lscpu_json |-> CmdMissing,
     lscpu_text |-> CmdMissing,
     detect_virt |-> CmdMissing,
     cpuinfo |-> [exists |-> FALSE, readable |-> FALSE, processors |-> <<>>],
     node |-> "host",
     machine |-> "x86_64",
     clock |-> 1]

LscpuDoc(fields) == [st |-> "ok", rc |-> 0, doc |-> "doc", fields |-> fields]

\* all sequences over S of length at most n
SeqsUpTo(S, n) == UNION {[1..k -> S] : k \in 0..n}

PolicyTree(units) ==
    [cpufreq_dir |-> TRUE, policies |-> units, cpu_dir |-> TRUE, cpus |-> <<>>]
PerCpuTree(cpus) ==
    [cpufreq_dir |-> FALSE, policies |-> <<>>, cpu_dir |-> TRUE, cpus |-> cpus]

(* Hosts that differ in the three frequency sources *)
FreqReadings == {Flt(0), Flt(2400)}
PsutilFreqs ==
    {[st |-> "raise"], [st |-> "none"]}
    \cup {[st |-> "ok", current |-> c, min |-> Flt(lo), max |-> Flt(hi)] :
            c \in FreqReadings, lo \in {0, 800}, hi \in {0, 3000}}
FreqUnitsSmall ==
    {[gov |-> FileAbsent, min |-> mn, max |-> mx, scaling_cur |-> cu,
      cpuinfo_cur |-> FileAbsent] :
        mn \in {FileBad, File(0), File(1000000)},
        mx \in {FileBad, File(0), File(2000000)},
        cu \in {FileAbsent, File(0), File(1500000)}}
FreqTreesSmall == {NoTree} \cup {PolicyTree(<<u>>) : u \in FreqUnitsSmall}
MhzTexts == {None,
             Some(Str(<<"0", ".", "0", "0", "0">>)),
             Some(Str(<<"1", "8", "0", "0", ".", "5", "0", "0">>))}
LscpuFreqDocs ==
    {LscpuDoc([EmptyDict EXCEPT !["CPU MHz"] = c, !["CPU min MHz"] = lo,
                                !["CPU max MHz"] = hi, !["Architecture"] = Some("x86_64")]) :
        c \in MhzTexts,
        lo \in {None, Some(Str(<<"4", "0", "0", ".", "0">>))},
        hi \in {None, Some(Str(<<"3", ".", "6", "0", " ", "G", "H", "z">>))}}

FreqHosts ==
    {[BareHost EXCEPT !.psutil = p, !.cpu_freq = f, !.sysfs = t, !.lscpu_json = d] :
        p \in BOOLEAN, f \in PsutilFreqs, t \in FreqTreesSmall, d \in LscpuFreqDocs}

InitFreq ==
    /\ env \in FreqHosts
    /\ pc = "start"
    /\ result = <<>>
    /\ calls = <<>>

NextCpu == CollectCpuInfo

\* collect_cpu_info on hosts that differ in psutil, the cpufreq tree and lscpu
SpecFreq == InitFreq /\ [][NextCpu]_vars

----------------------------------------------------------------------------
(* Frequency resolution: psutil, then sysfs, then lscpu *)

\* psutil.cpu_freq() answered with a triple on this host
PsutilReports == env.psutil /\ env.cpu_freq.st = "ok"

\* what the cpufreq tree adapter reports on this host
SysfsReading == SysfsCpufreqPolicy(env.sysfs)

\* C2: a reading of zero from a higher-priority source is the resolved value:
\* when psutil reports 0 for current, min or max the resolved value is 0, and
\* when psutil has no data and the cpufreq tree reports 0 the resolved value is 0
\* (the lower-priority readings are not used).
C2_ZeroIsAReading ==
    pc = "returned" =>
        /\ (PsutilReports /\ env.cpu_freq.current = Flt(0))
              => result.frequency_mhz.current = Some(Flt(0))
        /\ (PsutilReports /\ env.cpu_freq.min = Flt(0))
              => result.frequency_mhz.min = Some(Flt(0))
        /\ (PsutilReports /\ env.cpu_freq.max = Flt(0))
              => result.frequency_mhz.max = Some(Flt(0))
        /\ (~PsutilReports /\ SysfsReading.current_mhz = Some(Flt(0)))
              => result.frequency_mhz.current = Some(Flt(0))
        /\ (~PsutilReports /\ SysfsReading.min_mhz = Some(Flt(0)))
              => result.frequency_mhz.min = Some(Flt(0))
        /\ (~PsutilReports /\ SysfsReading.max_mhz = Some(Flt(0)))
              => result.frequency_mhz.max = Some(Flt(0))

\* C4: the current frequency is resolved in the order psutil, cpufreq tree,
\* lscpu: when psutil reports a current frequency the resolved value is
\* psutil's reading, else when the tree reports one it is the tree's, and the
\* lscpu "CPU MHz" value is used only when neither reported one.
C4_PsutilThenSysfsThenLscpu ==
    pc = "returned" =>
        /\ PsutilReports => result.frequency_mhz.current = Some(env.cpu_freq.current)
        /\ (~PsutilReports /\ SysfsReading.current_mhz # None)
              => result.frequency_mhz.current = SysfsReading.current_mhz

----------------------------------------------------------------------------
(* The cpufreq tree adapter: aggregation over units *)

MaxFreqUnits == 2

\* the limit files of a unit: scaling_min_freq and scaling_max_freq
FreqLimits ==
    {<<FileBad, FileBad>>, <<File(800000), File(3000000)>>,
     <<File(1200000), File(3500000)>>}

FreqUnits ==
    {[gov |-> FileAbsent, min |-> lim[1], max |-> lim[2],
      scaling_cur |-> sc, cpuinfo_cur |-> cc] :
        lim \in FreqLimits,
        sc \in {FileBad, File(1000000), File(2500000)},
        cc \in {FileAbsent, File(4000000)}}

SysfsFreqHosts ==
    {[BareHost EXCEPT !.sysfs = PolicyTree(us)] : us \in SeqsUpTo(FreqUnits, MaxFreqUnits)}
    \cup {[BareHost EXCEPT !.sysfs =
              PerCpuTree([i \in DOMAIN us |-> [cpufreq |-> TRUE, unit |-> us[i]]])] :
            us \in SeqsUpTo(FreqUnits, MaxFreqUnits)}

InitSysfsFreq ==
    /\ env \in SysfsFreqHosts
    /\ pc = "start"
    /\ result = <<>>
    /\ calls = <<>>

\* collect_cpu_info on hosts whose only frequency source is the cpufreq tree
SpecSysfsFreq == InitSysfsFreq /\ [][NextCpu]_vars

\* the units the adapter scans on this host, in enumeration order
ScannedUnits ==
    IF env.sysfs.cpufreq_dir THEN env.sysfs.policies
    ELSE IF env.sysfs.cpu_dir
    THEN LET cs == SelectSeq(env.sysfs.cpus, LAMBDA c : c.cpufreq)
         IN  [i \in DOMAIN cs |-> cs[i].unit]
    ELSE <<>>

\* the current frequencies (MHz) a unit reported
UnitCurrents(u) ==
    {Rat(f.khz, 1000) : f \in {g \in {u.scaling_cur, u.cpuinfo_cur} : g.st = "ok"}}

RECURSIVE SumOver(_, _)
SumOver(f, S) ==
    IF S = {} THEN Flt(0)
    ELSE LET i == CHOOSE x \in S : TRUE IN RatAdd(f[i], SumOver(f, S \ {i}))

\* C5: the adapter reports the minimum of the units' minimums, the maximum of
\* their maximums and the mean of their currents, each unit that reported a
\* current contributing exactly one value; an aggregate is None exactly when
\* no unit reported that quantity.
C5_SysfsAggregation ==
    pc = "returned" =>
        LET U == ScannedUnits
            mins == {Rat(U[i].min.khz, 1000) : i \in {j \in DOMAIN U : U[j].min.st = "ok"}}
            maxs == {Rat(U[i].max.khz, 1000) : i \in {j \in DOMAIN U : U[j].max.st = "ok"}}
            reporting == {i \in DOMAIN U : UnitCurrents(U[i]) # {}}
            values == UNION {UnitCurrents(U[i]) : i \in reporting}
            freq == result.frequency_mhz
        IN  /\ freq.min = None <=> mins = {}
            /\ freq.min # None => freq.min[1] \in mins /\ \A m \in mins : RatLeq(freq.min[1], m)
            /\ freq.max = None <=> maxs = {}
            /\ freq.max # None => freq.max[1] \in maxs /\ \A m \in maxs : RatLeq(m, freq.max[1])
            /\ freq.current = None <=> reporting = {}
            /\ freq.current # None =>
                  \E pick \in [reporting -> values] :
                      /\ \A i \in reporting : pick[i] \in UnitCurrents(U[i])
                      /\ freq.current[1] =
                            RatDivInt(SumOver(pick, reporting), Cardinality(reporting))

----------------------------------------------------------------------------
(* The cpufreq tree adapter: governors *)

MaxGovUnits == 3

GovUnit(g) ==
    [gov |-> g, min |-> FileBad, max |-> FileBad, scaling_cur |-> FileAbsent,
     cpuinfo_cur |-> FileAbsent]

GovFiles == {FileAbsent, GovFile(""), GovFile("performance"), GovFile("powersave")}

GovCpus ==
    {[cpufreq |-> TRUE, unit |-> GovUnit(g)] : g \in GovFiles}
    \cup {[cpufreq |-> FALSE, unit |-> GovUnit(FileAbsent)]}

GovernorHosts ==
    {[BareHost EXCEPT !.sysfs = PolicyTree(us)] :
        us \in SeqsUpTo({GovUnit(g) : g \in GovFiles}, MaxGovUnits)}
    \cup {[BareHost EXCEPT !.sysfs = PerCpuTree(cs)] : cs \in SeqsUpTo(GovCpus, MaxGovUnits)}

InitGovernors ==
    /\ env \in GovernorHosts
    /\ pc = "start"
    /\ result = <<>>
    /\ calls = <<>>

\* collect_cpu_info on hosts that differ in the units' governor files
SpecGovernors == InitGovernors /\ [][NextCpu]_vars

\* the permutations of 1..n
Perms(n) == {f \in [1..n -> 1..n] : \A i, j \in 1..n : f[i] = f[j] => i = j}

\* the host with the units of its cpufreq tree enumerated in the order f
Reordered(e, f) ==
    [e EXCEPT !.sysfs.policies = [i \in DOMAIN @ |-> @[f[i]]],
              !.sysfs.cpus = [i \in DOMAIN @ |-> @[f[i]]]]

\* the non-empty governor names the scanned units report
ReportedGovernors ==
    {ScannedUnits[i].gov.text :
        i \in {j \in DOMAIN ScannedUnits :
                  ScannedUnits[j].gov.st = "ok" /\ ScannedUnits[j].gov.text # ""}}

\* C6: the governor list holds each non-empty governor name reported by at
\* least one unit exactly once and nothing else, and is the same for every
\* order in which the units are enumerated; a unit with an unreadable or empty
\* governor file adds nothing and hides no other unit's governor.
C6_GovernorsDeduplicated ==
    pc = "returned" =>
        LET govs == result.cpufreq_governors
            n == Len(env.sysfs.policies) + Len(env.sysfs.cpus)
        IN  /\ {govs[i] : i \in DOMAIN govs} = ReportedGovernors
            /\ \A i, j \in DOMAIN govs : govs[i] = govs[j] => i = j
            /\ \A f \in Perms(n) :
                  CollectCpuInfoResult(Reordered(env, f)).cpufreq_governors = govs

\* the pass returned two governors from units that reported three names, one
\* of them twice, next to a unit with an empty governor file
C6_Witness ==
    /\ pc = "returned"
    /\ Len(ScannedUnits) = 3
    /\ \E i, j \in DOMAIN ScannedUnits :
          i # j /\ ScannedUnits[i].gov = ScannedUnits[j].gov
               /\ ScannedUnits[i].gov = GovFile("performance")
    /\ \E i \in DOMAIN ScannedUnits : ScannedUnits[i].gov = GovFile("powersave")
    /\ result.cpufreq_governors = <<"performance", "powersave">>

----------------------------------------------------------------------------
(* Hypervisor detection *)

VirtCmds ==
    {CmdMissing, [st |-> "timeout"]}
    \cup {[st |-> "ok", rc |-> 0, out |-> o] : o \in {"", "\n", "none\n", "NONE\n", "kvm\n", "kvm"}}
    \cup {[st |-> "ok", rc |-> 1, out |-> o] : o \in {"", "none\n", "kvm\n"}}

HyperDicts ==
    {[EmptyDict EXCEPT !["Hypervisor vendor"] = a, !["Hypervisor vendor (in short)"] = b,
                       !["Virtualization type"] = c, !["Virtualization"] = d,
                       !["Architecture"] = Some("x86_64")] :
        a \in {None, Some(""), Some("KVM")}, b \in {None, Some("KVM")},
        c \in {None, Some(""), Some("full")}, d \in {None, Some("VT-x")}}

HyperHosts ==
    {[BareHost EXCEPT !.lscpu_json = LscpuDoc(d), !.detect_virt = v] :
        d \in HyperDicts, v \in VirtCmds}
    \cup {[BareHost EXCEPT !.lscpu_json = [st |-> "ok", rc |-> 0, doc |-> "garbage"],
                           !.lscpu_text = LscpuDoc(d), !.detect_virt = v] :
            d \in HyperDicts, v \in VirtCmds}

InitHyper ==
    /\ env \in HyperHosts
    /\ pc = "start"
    /\ result = <<>>
    /\ calls = <<>>

\* collect_cpu_info on hosts that differ in lscpu's virtualization fields and in
\* what systemd-detect-virt answers
SpecHyper == InitHyper /\ [][NextCpu]_vars

\* the lscpu fields of this host, from whichever mode produced them
LscpuFields ==
    IF env.lscpu_json.doc = "doc" THEN env.lscpu_json.fields ELSE env.lscpu_text.fields

NonEmptyField(k) == LscpuFields[k] # None /\ LscpuFields[k] # Some("")

\* lscpu names a hypervisor vendor or a virtualization type
LscpuSaysVirtual ==
    \/ NonEmptyField("Hypervisor vendor") \/ NonEmptyField("Hypervisor vendor (in short)")
    \/ NonEmptyField("Virtualization type") \/ NonEmptyField("Virtualization")

DetectVirtInvoked == \E i \in DOMAIN calls : calls[i] = "systemd-detect-virt --vm"

\* systemd-detect-virt ran, succeeded and printed something other than "none"
DetectVirtNamesVm ==
    /\ env.detect_virt.st = "ok"
    /\ env.detect_virt.rc = 0
    /\ env.detect_virt.out \in {"kvm\n", "kvm"}

\* C7: is_virtual_machine is true whenever lscpu's hypervisor-vendor or
\* virtualization-type field is non-empty, and then systemd-detect-virt is not
\* invoked; when both are empty it is invoked, an output other than "none" (in
\* any case) gives is_virtual_machine = true with that output as the vendor,
\* and a failing or missing command, "none" or no output gives false.
C7_HypervisorDetection ==
    pc = "returned" =>
        LET h == result.hypervisor
        IN  /\ LscpuSaysVirtual => h.is_virtual_machine /\ ~DetectVirtInvoked
            /\ ~LscpuSaysVirtual => DetectVirtInvoked
            /\ (~LscpuSaysVirtual /\ DetectVirtNamesVm)
                  => h.is_virtual_machine /\ h.hypervisor_vendor = Some("kvm")
            /\ (~LscpuSaysVirtual /\ ~DetectVirtNamesVm) => ~h.is_virtual_machine

\* lscpu's fields were empty, systemd-detect-virt printed kvm, and the pass
\* reported a virtual machine of vendor kvm
C7_Witness ==
    /\ pc = "returned"
    /\ ~LscpuSaysVirtual
    /\ DetectVirtNamesVm
    /\ DetectVirtInvoked
    /\ result.hypervisor.is_virtual_machine
    /\ result.hypervisor.hypervisor_vendor = Some("kvm")

----------------------------------------------------------------------------
(* linux/linux.py: Linux.gather_info, section by section *)

\* int(x) of a float: truncation toward zero
Trunc(x) == IF x.n >= 0 THEN x.n \div x.d ELSE -((-x.n) \div x.d)

\* the cascade without the hostname step
ResolveIpSocketOnly(sock, resolve) ==
    IF sock.st = "ok" THEN sock.addr ELSE "127.0.0.1"

\* the primary IP: the socket's local address, else the hostname's, else loopback
ResolveIp(sock, resolve) ==
    IF sock.st = "ok" THEN sock.addr
    ELSE IF resolve.st = "ok" THEN resolve.addr
    ELSE "127.0.0.1"

\* cpu usage & frequency (linux.py 36-48)
LinuxCpuUsage(psutil, percent, freq) ==
    IF ~psutil THEN [cpu_usage |-> Some(Flt(0)), cpu_frequency |-> None]
    ELSE IF percent.st # "ok" \/ freq.st = "raise"
    THEN [cpu_usage |-> None, cpu_frequency |-> None]
    ELSE [cpu_usage |-> Some(percent.v),
          cpu_frequency |-> IF freq.st = "ok" /\ freq.current.n # 0
                            THEN Some(freq.current) ELSE None]

\* NormalizeTemp with the threshold test written >=
NormalizeTempFromThousand(val) ==
    IF RatLeq(Flt(1000), val) THEN RatDivInt(val, 1000) ELSE val

\* val / 1000.0 if val > 1000 (linux.py 79-81)
NormalizeTemp(val) == IF RatLess(Flt(1000), val) THEN RatDivInt(val, 1000) ELSE val

\* the names a thermal directory can hold, in Python's string order
ZoneNameOrder == <<"cooling_device0", "thermal_zone0", "thermal_zone1",
                   "thermal_zone10", "thermal_zone2">>

IsThermalZone(name) == name # "cooling_device0"

\* the loop over sorted(os.listdir(tz_base)) from position i on: the first zone
\* whose temp file opens, is non-empty and parses
RECURSIVE ScanZones(_, _)
ScanZones(dir, i) ==
    IF i > Len(ZoneNameOrder) THEN None
    ELSE LET name == ZoneNameOrder[i]
         IN  IF name \notin DOMAIN dir.files \/ ~IsThermalZone(name)
             THEN ScanZones(dir, i + 1)
             ELSE IF dir.files[name].st = "ok"
             THEN Some(NormalizeTemp(dir.files[name].val))
             ELSE ScanZones(dir, i + 1)

\* fallback to sysfs thermal zones (linux.py 66-84); "raise" when listdir fails
ThermalZoneFallback(dir) ==
    IF ~dir.isdir THEN [st |-> "ok", v |-> None]
    ELSE IF ~dir.listable THEN [st |-> "raise"]
    ELSE [st |-> "ok", v |-> ScanZones(dir, 1)]

\* the first entry of the first group, among the groups named keys, that is
\* non-empty; "raise" when its current is None (float(None))
RECURSIVE FirstReading(_, _, _)
FirstReading(groups, i, keys) ==
    IF i > Len(groups) THEN [st |-> "ok", v |-> None]
    ELSE IF groups[i].name \in keys /\ groups[i].entries # <<>>
    THEN IF groups[i].entries[1] = None THEN [st |-> "raise"]
         ELSE [st |-> "ok", v |-> groups[i].entries[1]]
    ELSE FirstReading(groups, i + 1, keys)

GroupNames(groups) == {groups[i].name : i \in DOMAIN groups}

\* for key in ("coretemp", "cpu_thermal", "k10temp"), then any group
PsutilCpuTemperature(groups) ==
    LET c1 == FirstReading(groups, 1, {"coretemp"})
        c2 == FirstReading(groups, 1, {"cpu_thermal"})
        c3 == FirstReading(groups, 1, {"k10temp"})
        named == IF c1.st = "raise" \/ c1.v # None THEN c1
                 ELSE IF c2.st = "raise" \/ c2.v # None THEN c2
                 ELSE c3
    IN  IF named.st = "raise" \/ named.v # None THEN named
        ELSE FirstReading(groups, 1, GroupNames(groups))

\* cpu temperature (linux.py 50-86)
LinuxCpuTemperature(psutil, e) ==
    LET fromPsutil ==
            IF psutil /\ e.has_sensors
            THEN IF e.sensors.st # "ok" THEN [st |-> "raise"]
                 ELSE PsutilCpuTemperature(e.sensors.groups)
            ELSE [st |-> "ok", v |-> None]
    IN  IF fromPsutil.st = "raise" THEN None
        ELSE IF fromPsutil.v # None THEN fromPsutil.v
        ELSE LET z == ThermalZoneFallback(e.thermal)
             IN  IF z.st = "raise" THEN None ELSE z.v

NoGpu == [usage |-> None, frequency |-> None, temperature |-> None, model |-> None]

\* ParseNvidiaLine with one try around the three float() calls: the first
\* unparseable column leaves it and the later fields unset
ParseNvidiaLineOneTry(parts) ==
    IF Len(parts) >= 4
    THEN LET ok1 == parts[1].num # <<>>
             ok2 == ok1 /\ parts[2].num # <<>>
             ok3 == ok2 /\ parts[3].num # <<>>
         IN  [usage |-> parts[1].num,
              frequency |-> IF ok1 THEN parts[2].num ELSE <<>>,
              temperature |-> IF ok2 THEN parts[3].num ELSE <<>>,
              model |-> IF ok3 /\ parts[4].text # "" THEN <<parts[4].text>> ELSE <<>>]
    ELSE [usage |-> <<>>, frequency |-> <<>>, temperature |-> <<>>, model |-> <<>>]

\* the parse of nvidia-smi's first line: four comma-separated columns, each
\* numeric column independently float() or None
ParseNvidiaLine(parts) ==
    IF Len(parts) >= 4
    THEN [usage |-> parts[1].num, frequency |-> parts[2].num,
          temperature |-> parts[3].num,
          model |-> IF parts[4].text # "" THEN Some(parts[4].text) ELSE None]
    ELSE NoGpu

\* the model from lspci -mm: the last field of the first VGA/3D line with fields
RECURSIVE LspciModel(_, _)
LspciModel(lines, i) ==
    IF i > Len(lines) THEN None
    ELSE IF lines[i].vga /\ lines[i].parts # <<>>
    THEN Some(lines[i].parts[Len(lines[i].parts)])
    ELSE LspciModel(lines, i + 1)

\* GPU info (linux.py 88-134)
LinuxGpu(nv, lspci) ==
    IF nv.st = "ok"
    THEN IF nv.lines # <<>> THEN ParseNvidiaLine(nv.lines[1]) ELSE NoGpu
    ELSE IF lspci.st = "ok" THEN [NoGpu EXCEPT !.model = LspciModel(lspci.lines, 1)]
    ELSE NoGpu

\* whether the Linux GPU section runs lspci
LinuxGpuCalls(nv) ==
    IF nv.st = "ok" THEN <<"nvidia-smi">> ELSE <<"nvidia-smi", "lspci -mm">>

\* memory (linux.py 136-149, windows.py 215-225)
MemoryUsage(psutil, vm) ==
    IF psutil /\ vm.st = "ok"
    THEN [memory_usage |-> Some(vm.percent), memory_max |-> Some(vm.total)]
    ELSE [memory_usage |-> None, memory_max |-> None]

----------------------------------------------------------------------------
(* Disks *)

\* the loop over psutil.disk_partitions() (linux.py 162-176) from position i on
RECURSIVE LinuxScanPartitions(_, _, _, _, _)
LinuxScanPartitions(mps, i, seen, disks, usage) ==
    IF i > Len(mps) THEN disks
    ELSE LET mp == mps[i]
         IN  IF mp \in seen THEN LinuxScanPartitions(mps, i + 1, seen, disks, usage)
             ELSE IF usage[mp].st = "ok"
             THEN LinuxScanPartitions(mps, i + 1, seen \cup {mp},
                      Append(disks, [mountpoint |-> mp, usage |-> usage[mp].percent,
                                     size |-> usage[mp].total]),
                      usage)
             ELSE LinuxScanPartitions(mps, i + 1, seen \cup {mp}, disks, usage)

\* every mount point of the model, in Python's string order
MountOrder == <<"/", "/boot", "/data", "/proc", "/sys/fs">>

IsPseudoMount(mp) == mp \in {"/proc", "/sys/fs"}

\* (used / total) * 100.0 if total > 0 else 0.0
StatvfsPercent(st) ==
    IF st.total > 0 THEN Rat((st.total - st.free) * 100, st.total) ELSE Flt(0)

\* the loop over sorted(mounts) (linux.py 200-216) from position i on
RECURSIVE LinuxScanMounts(_, _, _, _)
LinuxScanMounts(mounts, i, disks, statvfs) ==
    IF i > Len(MountOrder) THEN disks
    ELSE LET mp == MountOrder[i]
         IN  IF mp \notin mounts \/ IsPseudoMount(mp) \/ statvfs[mp].st # "ok"
             THEN LinuxScanMounts(mounts, i + 1, disks, statvfs)
             ELSE LinuxScanMounts(mounts, i + 1,
                      Append(disks, [mountpoint |-> mp,
                                     usage |-> StatvfsPercent(statvfs[mp]),
                                     size |-> statvfs[mp].total]),
                      statvfs)

\* disk (linux.py 151-224)
LinuxDisks(psutil, e) ==
    IF psutil
    THEN LET mps == IF e.partitions.st = "ok" THEN e.partitions.mps ELSE <<>>
             found == LinuxScanPartitions(mps, 1, {}, <<>>, e.usage)
         IN  IF found # <<>> THEN found
             ELSE IF e.usage["/"].st = "ok"
             THEN <<[mountpoint |-> "/", usage |-> e.usage["/"].percent,
                     size |-> e.usage["/"].total]>>
             ELSE <<>>
    ELSE IF e.proc_mounts.st # "ok" THEN <<>>
    ELSE LinuxScanMounts({e.proc_mounts.mounts[i] : i \in DOMAIN e.proc_mounts.mounts},
                         1, <<>>, e.statvfs)

\* NormWin without normcase
NormWinKeepCase(mp) == IF mp = "C:/" THEN "C:\\" ELSE mp

\* os.path.normcase(os.path.normpath(mp)) on Windows, on the paths of the model
NormWin(mp) ==
    CASE mp = "C:\\" -> "c:\\"
      [] mp = "C:/" -> "c:\\"
      [] mp = "D:\\" -> "d:\\"
      [] OTHER -> mp

IsUnc(norm) == norm = "\\\\srv\\share"

\* the loop over psutil.disk_partitions() (windows.py 242-261) from position i on
RECURSIVE WindowsScanPartitions(_, _, _, _, _)
WindowsScanPartitions(mps, i, seen, disks, usage) ==
    IF i > Len(mps) THEN disks
    ELSE LET mp == mps[i]
             norm == NormWin(mp)
         IN  IF mp = "" \/ norm \in seen \/ IsUnc(norm) \/ usage[mp].st # "ok"
             THEN WindowsScanPartitions(mps, i + 1, seen, disks, usage)
             ELSE WindowsScanPartitions(mps, i + 1, seen \cup {norm},
                      Append(disks, [path |-> mp, usage |-> usage[mp].percent,
                                     size |-> usage[mp].total]),
                      usage)

\* disk (windows.py 227-275)
WindowsDisks(psutil, e) ==
    IF ~psutil THEN <<>>
    ELSE IF e.usage["C:\\"].st = "ok"
    THEN LET first == <<[path |-> "C:\\", usage |-> e.usage["C:\\"].percent,
                         size |-> e.usage["C:\\"].total]>>
         IN  IF e.partitions.st # "ok" THEN first
             ELSE WindowsScanPartitions(e.partitions.mps, 1, {NormWin("C:\\")}, first, e.usage)
    ELSE IF e.usage["/"].st = "ok"
    THEN <<[path |-> "/", usage |-> e.usage["/"].percent, size |-> e.usage["/"].total]>>
    ELSE <<>>

----------------------------------------------------------------------------
(* Processes *)

TopN == 10

\* info.get("memory_info").rss if info.get("memory_info") else 0
ProcRss(p) == IF p.mem # None THEN p.mem[1] ELSE 0

\* (rss, "name (pid)"), the name falling back to "pid:<pid>"
ProcEntry(p) ==
    [rss |-> ProcRss(p),
     label |-> [name |-> IF TruthyStr(p.name) THEN p.name[1] ELSE "pid:", pid |-> p.pid]]

\* the loop over psutil.process_iter(): a process whose info raises is skipped
RECURSIVE ReadProcesses(_, _)
ReadProcesses(ps, i) ==
    IF i > Len(ps) THEN <<>>
    ELSE IF ps[i].readable THEN <<ProcEntry(ps[i])>> \o ReadProcesses(ps, i + 1)
    ELSE ReadProcesses(ps, i + 1)

\* InsertByRss for a sort without reverse=True
RECURSIVE InsertByRssAscending(_, _)
InsertByRssAscending(x, sorted) ==
    IF sorted = <<>> THEN <<x>>
    ELSE IF Head(sorted).rss <= x.rss
    THEN <<Head(sorted)>> \o InsertByRssAscending(x, Tail(sorted))
    ELSE <<x>> \o sorted

\* x placed in a list sorted by non-increasing rss, after the entries of equal rss
RECURSIVE InsertByRss(_, _)
InsertByRss(x, sorted) ==
    IF sorted = <<>> THEN <<x>>
    ELSE IF Head(sorted).rss >= x.rss THEN <<Head(sorted)>> \o InsertByRss(x, Tail(sorted))
    ELSE <<x>> \o sorted

\* procs.sort(key=lambda x: x[0], reverse=True): stable, largest rss first
RECURSIVE SortByRss(_, _)
SortByRss(procs, sorted) ==
    IF procs = <<>> THEN sorted
    ELSE SortByRss(Tail(procs), InsertByRss(Head(procs), sorted))

\* procs[:10]
Truncate(s, n) == SubSeq(s, 1, IF Len(s) < n THEN Len(s) ELSE n)

\* processes (linux.py 226-242, windows.py 277-294)
TopProcesses(psutil, piter) ==
    IF ~psutil \/ piter.st # "ok" THEN <<>>
    ELSE LET top == Truncate(SortByRss(ReadProcesses(piter.procs, 1), <<>>), TopN)
         IN  [i \in DOMAIN top |-> top[i].label]

----------------------------------------------------------------------------
(* linux/linux.py: the rest of gather_info and the returned record *)

\* OS info from /etc/os-release (linux.py 244-259)
LinuxOsRelease(f) ==
    IF f.st # "ok" THEN [os_name |-> "", os_version |-> ""]
    ELSE [os_name |-> IF f.name # None THEN f.name[1] ELSE "",
          os_version |-> IF f.version # None THEN f.version[1] ELSE ""]

\* platform.uname() (linux.py 261-267, windows.py 312-322)
UnameInfo(u) ==
    IF u.st # "ok" THEN [os_kernel |-> "", os_architecture |-> ""]
    ELSE [os_kernel |-> u.release, os_architecture |-> u.machine]

\* cpu model from /proc/cpuinfo (linux.py 269-288)
LinuxCpuModel(f) == IF f.st = "ok" THEN f.model ELSE ""

\* float(x) if x is not None else 0.0
OrZero(x) == IF x # None THEN x ELSE Some(Flt(0))

\* int(x) if x is not None else 0
IntOrZero(x) == IF x # None THEN Some(Flt(Trunc(x[1]))) ELSE Some(Flt(0))

\* Linux.gather_info: [st |-> "ok", rec |-> the record] or [st |-> "raise"]
LinuxGatherInfo(e) ==
    LET psutil == e.psutil
        cpu == LinuxCpuUsage(psutil, e.cpu_percent, e.cpu_freq)
        cpu_temperature == LinuxCpuTemperature(psutil, e)
        gpu == LinuxGpu(e.nvidia_smi, e.lspci)
        mem == MemoryUsage(psutil, e.vmem)
        os == LinuxOsRelease(e.os_release)
        un == UnameInfo(e.uname)
    IN  IF psutil /\ e.boot_time.st # "ok" THEN [st |-> "raise"]
        ELSE [st |-> "ok",
              rec |-> [hostname |-> e.node,
                       ip |-> ResolveIp(e.sock, e.resolve),
                       uptime |-> IF psutil THEN Some(Flt(Trunc(e.boot_time.v)))
                                  ELSE Some(Flt(0)),
                       cpu_usage |-> OrZero(cpu.cpu_usage),
                       cpu_frequency |-> IntOrZero(cpu.cpu_frequency),
                       gpu_usage |-> OrZero(gpu.usage),
                       gpu_frequency |-> OrZero(gpu.frequency),
                       cpu_temperature |-> OrZero(cpu_temperature),
                       gpu_temperature |-> OrZero(gpu.temperature),
                       memory_usage |-> OrZero(mem.memory_usage),
                       memory_max |-> IntOrZero(mem.memory_max),
                       disks |-> LinuxDisks(psutil, e),
                       processes |-> TopProcesses(psutil, e.piter),
                       os_name |-> os.os_name,
                       os_version |-> os.os_version,
                       os_kernel |-> un.os_kernel,
                       os_architecture |-> un.os_architecture,
                       cpu_model |-> LinuxCpuModel(e.cpuinfo_model),
                       gpu_model |-> gpu.model]]

----------------------------------------------------------------------------
(* windows/windows.py: Windows.gather_info *)

\* Windows.__init__: the WMI client, when the module imports and connects
WmiClient(w) == w.installed /\ w.connects

\* cpu usage & frequency (windows.py 176-188)
WindowsCpuUsage(psutil, percent, freq) ==
    IF ~psutil THEN [cpu_usage |-> None, cpu_frequency |-> None]
    ELSE LinuxCpuUsage(psutil, percent, freq)

\* the loop over temps.values(): the first group whose first reading is not None
RECURSIVE FirstKnownReading(_, _)
FirstKnownReading(groups, i) ==
    IF i > Len(groups) THEN None
    ELSE IF groups[i].entries # <<>> /\ groups[i].entries[1] # None
    THEN groups[i].entries[1]
    ELSE FirstKnownReading(groups, i + 1)

\* _get_cpu_temperature: psutil's sensors; the WMI sensors are read and printed
\* but never returned
WindowsCpuTemperature(psutil, e) ==
    IF psutil /\ e.has_sensors /\ e.sensors.st = "ok"
    THEN FirstKnownReading(e.sensors.groups, 1)
    ELSE None

\* _get_gpu_via_nvidia_smi
GpuViaNvidiaSmi(nv) ==
    IF nv.st = "ok" /\ nv.lines # <<>> THEN ParseNvidiaLine(nv.lines[1]) ELSE NoGpu

\* _get_gpu_via_gputil
GpuViaGputil(g) ==
    IF ~g.installed \/ g.st # "ok" \/ g.gpus = <<>> THEN NoGpu
    ELSE LET d == g.gpus[1]
             freq == OrNum(d.clock, d.memoryClock)
         IN  [usage |-> IF d.load # None THEN Some(Rat(d.load[1].n * 100, d.load[1].d))
                        ELSE None,
              frequency |-> freq,
              temperature |-> d.temperature,
              model |-> d.name]

\* _get_gpu_via_wmi
GpuViaWmi(w) ==
    IF ~WmiClient(w) \/ w.video.st # "ok" \/ w.video.names = <<>> THEN NoGpu
    ELSE [NoGpu EXCEPT !.model = IF TruthyStr(w.video.names[1]) THEN w.video.names[1]
                                 ELSE None]

\* WindowsGpu taking each field from the first source that knows it
WindowsGpuBlended(e) ==
    LET nv == GpuViaNvidiaSmi(e.nvidia_smi)
        gu == GpuViaGputil(e.gputil)
        wi == GpuViaWmi(e.wmi)
        First(f) == IF nv[f] # <<>> THEN nv[f] ELSE IF gu[f] # <<>> THEN gu[f] ELSE wi[f]
    IN  [usage |-> First("usage"), frequency |-> First("frequency"),
         temperature |-> First("temperature"), model |-> First("model")]

AnyKnown(info) ==
    info.usage # None \/ info.frequency # None \/ info.temperature # None \/ info.model # None

\* GPU info (windows.py 193-213): nvidia-smi, then GPUtil, then WMI
WindowsGpu(e) ==
    IF AnyKnown(GpuViaNvidiaSmi(e.nvidia_smi)) THEN GpuViaNvidiaSmi(e.nvidia_smi)
    ELSE IF AnyKnown(GpuViaGputil(e.gputil)) THEN GpuViaGputil(e.gputil)
    ELSE IF AnyKnown(GpuViaWmi(e.wmi)) THEN GpuViaWmi(e.wmi)
    ELSE NoGpu

\* the GPU sources the cascade asks, in order
WindowsGpuCalls(e) ==
    IF AnyKnown(GpuViaNvidiaSmi(e.nvidia_smi)) THEN <<"nvidia-smi">>
    ELSE IF AnyKnown(GpuViaGputil(e.gputil)) THEN <<"nvidia-smi", "GPUtil">>
    ELSE <<"nvidia-smi", "GPUtil", "WMI">>

\* OS info (windows.py 296-322)
WindowsOsInfo(e) ==
    LET w == e.wmi
        fromWmi == WmiClient(w) /\ w.os.st = "ok"
        caption == IF fromWmi THEN w.os.caption ELSE ""
        version == IF fromWmi THEN w.os.version ELSE ""
    IN  IF e.uname.st # "ok" THEN [os_name |-> caption, os_version |-> version]
        ELSE [os_name |-> IF caption # "" THEN caption ELSE e.uname.system,
              os_version |-> IF version # "" THEN version ELSE e.uname.version]

\* _get_cpu_model
WindowsCpuModel(e) ==
    LET w == e.wmi
    IN  IF WmiClient(w) /\ w.processor.st = "ok" /\ w.processor.name # ""
        THEN w.processor.name
        ELSE IF e.uname.st = "ok" THEN e.uname.processor ELSE ""

\* Windows.gather_info: [st |-> "ok", rec |-> the record] or [st |-> "raise"]
WindowsGatherInfo(e) ==
    LET psutil == e.psutil
        cpu == WindowsCpuUsage(psutil, e.cpu_percent, e.cpu_freq)
        gpu == WindowsGpu(e)
        mem == MemoryUsage(psutil, e.vmem)
        os == WindowsOsInfo(e)
        un == UnameInfo(e.uname)
        IntOf(x) == IF x # None THEN Some(Flt(Trunc(x[1]))) ELSE None
    IN  IF psutil /\ e.boot_time.st # "ok" THEN [st |-> "raise"]
        ELSE [st |-> "ok",
              rec |-> [hostname |-> e.node,
                       ip |-> ResolveIp(e.sock, e.resolve),
                       uptime |-> IF psutil THEN Some(Flt(Trunc(e.boot_time.v))) ELSE None,
                       cpu_usage |-> cpu.cpu_usage,
                       cpu_frequency |-> cpu.cpu_frequency,
                       gpu_usage |-> gpu.usage,
                       gpu_frequency |-> gpu.frequency,
                       cpu_temperature |-> WindowsCpuTemperature(psutil, e),
                       gpu_temperature |-> gpu.temperature,
                       memory_usage |-> mem.memory_usage,
                       memory_max |-> IntOf(mem.memory_max),
                       disks |-> WindowsDisks(psutil, e),
                       processes |-> TopProcesses(psutil, e.piter),
                       os_name |-> os.os_name,
                       os_version |-> os.os_version,
                       os_kernel |-> un.os_kernel,
                       os_architecture |-> un.os_architecture,
                       cpu_model |-> WindowsCpuModel(e),
                       gpu_model |-> gpu.model]]

----------------------------------------------------------------------------
(* main.py: start-up and one collection pass *)

\* the module-level imports of main.py: linux/linux.py imports psutil
\* unguarded, so the program starts only where psutil is installed
ImportModules ==
    /\ pc = "boot"
    /\ pc' = IF env.psutil THEN "start" ELSE "import_error"
    /\ UNCHANGED <<env, result, calls>>

\* call_sysinfocollection on linux
GatherLinux ==
    /\ pc = "start"
    /\ env.platform = "linux"
    /\ LET r == LinuxGatherInfo(env)
       IN  /\ pc' = IF r.st = "ok" THEN "returned" ELSE "raised"
           /\ result' = IF r.st = "ok" THEN r.rec ELSE <<>>
    /\ calls' = LinuxGpuCalls(env.nvidia_smi)
    /\ UNCHANGED env

\* call_sysinfocollection on win32
GatherWindows ==
    /\ pc = "start"
    /\ env.platform = "win32"
    /\ LET r == WindowsGatherInfo(env)
       IN  /\ pc' = IF r.st = "ok" THEN "returned" ELSE "raised"
           /\ result' = IF r.st = "ok" THEN r.rec ELSE <<>>
    /\ calls' = WindowsGpuCalls(env)
    /\ UNCHANGED env

NextGather == ImportModules \/ GatherLinux \/ GatherWindows

----------------------------------------------------------------------------
(* Hosts for gather_info *)

AllMounts == {"/", "/boot", "/data", "/proc", "/sys/fs",
              "C:\\", "c:\\", "C:/", "D:\\", "d:\\", "\\\\srv\\share", ""}

Usage(p, t) == [st |-> "ok", percent |-> Flt(p), total |-> t]
Failing == [st |-> "raise"]

NvPart(num, text) == [num |-> num, text |-> text]
NvLine(u, f, t, m) == <<NvPart(u, "u"), NvPart(f, "f"), NvPart(t, "t"), NvPart(None, m)>>

\* a host on which every source answers, with non-zero readings
PlainHost ==
    [platform |-> "linux",
     psutil |-> TRUE,
     node |-> "host",
     sock |-> [st |-> "ok", addr |-> "10.0.0.5"],
     resolve |-> [st |-> "ok", addr |-> "10.0.0.6"],
     cpu_percent |-> [st |-> "ok", v |-> Flt(50)],
     cpu_freq |-> [st |-> "ok", current |-> Flt(2400)],
     has_sensors |-> TRUE,
     sensors |-> [st |-> "ok", groups |-> <<[name |-> "coretemp", entries |-> <<Some(Flt(55))>>]>>],
     thermal |-> [isdir |-> FALSE, listable |-> FALSE, files |-> <<>>],
     nvidia_smi |-> [st |-> "ok", lines |-> <<NvLine(Some(Flt(30)), Some(Flt(1500)),
                                                      Some(Flt(60)), "GeForce")>>],
     lspci |-> [st |-> "raise"],
     vmem |-> [st |-> "ok", percent |-> Flt(40), total |-> Flt(8000)],
     partitions |-> [st |-> "ok", mps |-> <<"/">>],
     usage |-> [m \in AllMounts |-> Usage(60, 100)],
     proc_mounts |-> [st |-> "ok", mounts |-> <<"/">>],
     statvfs |-> [m \in AllMounts |-> [st |-> "ok", total |-> 100, free |-> 40]],
     piter |-> [st |-> "ok", procs |-> <<>>],
     os_release |-> [st |-> "ok", name |-> Some("Debian"), version |-> Some("12")],
     uname |-> [st |-> "ok", release |-> "6.1", machine |-> "x86_64", system |-> "Linux",
                version |-> "1", processor |-> "x86_64"],
     cpuinfo_model |-> [st |-> "ok", model |-> "cpu"],
     boot_time |-> [st |-> "ok", v |-> Flt(1000)],
     wmi |-> [installed |-> FALSE, connects |-> FALSE],
     gputil |-> [installed |-> FALSE]]

\* the host on which every numeric source reports zero
ZeroHost ==
    [PlainHost EXCEPT
        !.cpu_percent = [st |-> "ok", v |-> Flt(0)],
        !.cpu_freq = [st |-> "ok", current |-> Flt(0)],
        !.sensors = [st |-> "ok", groups |-> <<[name |-> "coretemp", entries |-> <<Some(Flt(0))>>]>>],
        !.nvidia_smi = [st |-> "ok", lines |-> <<NvLine(Some(Flt(0)), Some(Flt(0)),
                                                        Some(Flt(0)), "GeForce")>>],
        !.vmem = [st |-> "ok", percent |-> Flt(0), total |-> Flt(0)],
        !.boot_time = [st |-> "ok", v |-> Flt(0)]]

ThermalDir(files) == [isdir |-> TRUE, listable |-> TRUE, files |-> files]
ZoneFile(v) == [st |-> "ok", val |-> Flt(v)]

SensorChoices ==
    {[st |-> "raise"], [st |-> "ok", groups |-> <<>>],
     [st |-> "ok", groups |-> <<[name |-> "acpitz", entries |-> <<>>],
                                [name |-> "coretemp", entries |-> <<Some(Flt(0))>>]>>],
     [st |-> "ok", groups |-> <<[name |-> "nvme", entries |-> <<Some(Flt(40))>>],
                                [name |-> "k10temp", entries |-> <<Some(Flt(55))>>]>>]}

ThermalChoices ==
    {[isdir |-> FALSE, listable |-> FALSE, files |-> <<>>],
     [isdir |-> TRUE, listable |-> FALSE, files |-> <<>>],
     ThermalDir([n \in {"thermal_zone0"} |-> ZoneFile(0)]),
     ThermalDir([n \in {"thermal_zone0"} |-> ZoneFile(45000)])}

NvidiaChoices ==
    {[st |-> "raise"], [st |-> "ok", lines |-> <<>>],
     [st |-> "ok", lines |-> << <<NvPart(Some(Flt(5)), "5"), NvPart(None, "x")>> >>],
     [st |-> "ok", lines |-> <<NvLine(Some(Flt(0)), Some(Flt(0)), Some(Flt(0)), "GeForce")>>],
     [st |-> "ok", lines |-> <<NvLine(None, Some(Flt(1500)), Some(Flt(60)), "")>>]}

LspciChoices ==
    {[st |-> "raise"],
     [st |-> "ok", lines |-> <<[vga |-> FALSE, parts |-> <<"Host bridge">>],
                               [vga |-> TRUE, parts |-> <<"VGA", "HD Graphics 620">>]>>]}

GatherHosts ==
    {[PlainHost EXCEPT !.platform = pf, !.cpu_percent = cp, !.cpu_freq = cf, !.sensors = se,
                       !.has_sensors = hs, !.thermal = th, !.nvidia_smi = nv, !.lspci = ls,
                       !.vmem = vm, !.boot_time = bt] :
        pf \in {"linux", "win32"},
        cp \in {Failing, [st |-> "ok", v |-> Flt(0)], [st |-> "ok", v |-> Flt(50)]},
        cf \in {Failing, [st |-> "none"], [st |-> "ok", current |-> Flt(0)],
                [st |-> "ok", current |-> Rat(4801, 2)]},
        se \in SensorChoices, hs \in {TRUE}, th \in ThermalChoices,
        nv \in NvidiaChoices, ls \in LspciChoices,
        vm \in {Failing, [st |-> "ok", percent |-> Flt(0), total |-> Flt(0)],
                [st |-> "ok", percent |-> Rat(81, 2), total |-> Flt(8000)]},
        bt \in {Failing, [st |-> "ok", v |-> Flt(0)], [st |-> "ok", v |-> Rat(2001, 2)]}}
    \cup {[PlainHost EXCEPT !.platform = pf, !.psutil = FALSE, !.has_sensors = FALSE] :
            pf \in {"linux", "win32"}}

Init ==
    /\ env \in GatherHosts
    /\ pc = "boot"
    /\ result = <<>>
    /\ calls = <<>>

\* main.py: start-up and one pass of gather_info on either platform
Spec == Init /\ [][NextGather]_vars

----------------------------------------------------------------------------
(* One pass never raises and returns every declared key *)

RecordKeys == {"hostname", "ip", "uptime", "cpu_usage", "cpu_frequency", "gpu_usage",
               "gpu_frequency", "cpu_temperature", "gpu_temperature", "memory_usage",
               "memory_max", "disks", "processes", "os_name", "os_version", "os_kernel",
               "os_architecture", "cpu_model", "gpu_model"}

\* C1: whatever the data sources do (available, absent, failing, timing out,
\* unparseable), one pass of gather_info returns a record with every declared
\* key and never raises, the final record-building step included.
C1_PassNeverRaises ==
    /\ pc # "raised"
    /\ pc = "returned" => DOMAIN result = RecordKeys

----------------------------------------------------------------------------
(* Unknown markers in the Linux record *)

NvidiaColumn(i) ==
    IF env.nvidia_smi.st = "ok" /\ env.nvidia_smi.lines # <<>>
       /\ Len(env.nvidia_smi.lines[1]) >= 4
    THEN env.nvidia_smi.lines[1][i].num ELSE None

\* no sensor group and no thermal zone has a reading on this host
NoTemperatureSource ==
    /\ env.sensors.st # "ok" \/ \A i \in DOMAIN env.sensors.groups :
                                    env.sensors.groups[i].entries = <<>>
    /\ \A n \in DOMAIN env.thermal.files : env.thermal.files[n].st # "ok"

\* the numeric fields for which no source produced a reading on this host
UnreadFields ==
    {f \in {"cpu_usage"} : env.cpu_percent.st # "ok"}
    \cup {f \in {"cpu_frequency"} : env.cpu_freq.st # "ok"}
    \cup {f \in {"gpu_usage"} : NvidiaColumn(1) = None}
    \cup {f \in {"gpu_frequency"} : NvidiaColumn(2) = None}
    \cup {f \in {"gpu_temperature"} : NvidiaColumn(3) = None}
    \cup {f \in {"cpu_temperature"} : NoTemperatureSource}
    \cup {f \in {"memory_usage", "memory_max"} : env.vmem.st # "ok"}
    \cup {f \in {"uptime"} : ~env.psutil}

\* the record of the run on which every source reported zero
ZeroRecord == LinuxGatherInfo(ZeroHost).rec

\* C3: in the Linux record, a numeric field for which no source produced a
\* reading carries a marker that differs from the value the field has on a run
\* where the source reported 0.
C3_UnknownDiffersFromZero ==
    (pc = "returned" /\ env.platform = "linux") =>
        \A f \in UnreadFields : result[f] # ZeroRecord[f]

----------------------------------------------------------------------------
(* Thermal-zone fallback *)

ZoneFiles0 ==
    {[st |-> "unreadable"], [st |-> "empty"], [st |-> "garbage"]}
    \cup {ZoneFile(v) : v \in {0, 45, 999, 1000, 1001, 45000}}

ThermalDirs ==
    {[isdir |-> FALSE, listable |-> FALSE, files |-> <<>>]}
    \cup {ThermalDir([n \in names |->
                        IF n = "thermal_zone0" THEN z0
                        ELSE IF n = "thermal_zone1" THEN z1
                        ELSE ZoneFile(5)]) :
            names \in SUBSET {"cooling_device0", "thermal_zone0", "thermal_zone1"},
            z0 \in ZoneFiles0, z1 \in {ZoneFile(45), ZoneFile(45000), ZoneFile(1000)}}

ThermalHosts ==
    {[PlainHost EXCEPT !.sensors = [st |-> "ok", groups |-> g], !.has_sensors = hs,
                       !.thermal = th] :
        g \in {<<>>, <<[name |-> "acpitz", entries |-> <<>>]>>},
        hs \in BOOLEAN, th \in ThermalDirs}

InitThermal ==
    /\ env \in ThermalHosts
    /\ pc = "boot"
    /\ result = <<>>
    /\ calls = <<>>

NextLinux == ImportModules \/ GatherLinux

\* Linux.gather_info on hosts where psutil has no temperature and the thermal
\* zones differ
SpecThermal == InitThermal /\ [][NextLinux]_vars

\* psutil gave no temperature (no sensors call, or only empty groups), so the
\* pass went on to the thermal zones
FallbackReached ==
    /\ env.platform = "linux"
    /\ ~env.has_sensors \/ (env.sensors.st = "ok" /\
          \A i \in DOMAIN env.sensors.groups : env.sensors.groups[i].entries = <<>>)
    /\ env.thermal.isdir /\ env.thermal.listable

\* the thermal zones of this host whose temp file holds a number
ReadableZones ==
    {n \in DOMAIN env.thermal.files : IsThermalZone(n) /\ env.thermal.files[n].st = "ok"}

\* the raw reading the fallback takes: that of the first readable zone by name
RawReading ==
    LET i == CHOOSE k \in 1..Len(ZoneNameOrder) :
                 /\ ZoneNameOrder[k] \in ReadableZones
                 /\ \A j \in 1..(k - 1) : ZoneNameOrder[j] \notin ReadableZones
    IN  env.thermal.files[ZoneNameOrder[i]].val.n

\* C10: the thermal-zone fallback reports a raw reading v as v/1000 when
\* v > 1000 and as v itself when v <= 1000 (45000 gives 45.0, 45 gives 45.0,
\* 1000 gives 1000).
C10_TemperatureDisambiguation ==
    (pc = "returned" /\ FallbackReached /\ ReadableZones # {}) =>
        LET v == RawReading
        IN  /\ v > 1000 => result.cpu_temperature = Some(Rat(v, 1000))
            /\ v <= 1000 => result.cpu_temperature = Some(Flt(v))

\* the fallback skipped an unreadable first zone, read 45000 from the next and
\* reported 45.0
C10_Witness ==
    /\ pc = "returned"
    /\ FallbackReached
    /\ "thermal_zone0" \in DOMAIN env.thermal.files
    /\ env.thermal.files["thermal_zone0"].st = "unreadable"
    /\ ReadableZones # {}
    /\ RawReading = 45000
    /\ result.cpu_temperature = Some(Flt(45))

----------------------------------------------------------------------------
(* Process ranking *)

MaxProcs == 12

\* a process table of n processes, pid i with resident memory (i*a) mod m; the
\* process u cannot be read, the process z has no memory info and no name
ProcTable(n, a, m, u, z) ==
    [i \in 1..n |->
        [pid |-> i,
         readable |-> i # u,
         name |-> IF i = z THEN None ELSE Some("proc"),
         mem |-> IF i = z THEN None ELSE Some((i * a) % m)]]

ProcHosts ==
    {[PlainHost EXCEPT !.platform = pf,
                       !.piter = [st |-> "ok", procs |-> ProcTable(n, a, m, u, z)]] :
        pf \in {"linux", "win32"}, n \in 0..MaxProcs, a \in {1, 3}, m \in {3, 7},
        u \in 0..MaxProcs, z \in 0..MaxProcs}
    \cup {[PlainHost EXCEPT !.platform = pf, !.piter = Failing] : pf \in {"linux", "win32"}}

InitProc ==
    /\ env \in ProcHosts
    /\ pc = "boot"
    /\ result = <<>>
    /\ calls = <<>>

\* gather_info on hosts that differ in the process table
SpecProc == InitProc /\ [][NextGather]_vars

\* the process table of this host, and the processes whose attributes can be read
Table == IF env.piter.st = "ok" THEN env.piter.procs ELSE <<>>
ReadablePids == {i \in DOMAIN Table : Table[i].readable}
RssOf(pid) == IF Table[pid].mem = None THEN 0 ELSE Table[pid].mem[1]

\* C8: the process list has at most 10 entries, is ordered by non-increasing
\* resident memory, and every process left out has resident memory no greater
\* than every listed one; a process that cannot be read is skipped without
\* dropping the others, and a process with no memory info ranks as 0 bytes.
C8_TopTenByRss ==
    pc = "returned" =>
        LET listed == result.processes
            pids == {listed[i].pid : i \in DOMAIN listed}
        IN  /\ Len(listed) <= 10
            /\ \A i, j \in DOMAIN listed : listed[i].pid = listed[j].pid => i = j
            /\ pids \subseteq ReadablePids
            /\ Cardinality(ReadablePids) <= 10 => pids = ReadablePids
            /\ Cardinality(ReadablePids) > 10 => Len(listed) = 10
            /\ \A i, j \in DOMAIN listed :
                  i < j => RssOf(listed[i].pid) >= RssOf(listed[j].pid)
            /\ \A q \in ReadablePids \ pids : \A l \in pids : RssOf(q) <= RssOf(l)

\* twelve processes, one unreadable and one without memory info that is listed
\* last of ten, a readable process is left out
C8_Witness ==
    /\ pc = "returned"
    /\ Len(Table) = 12
    /\ Cardinality(ReadablePids) = 11
    /\ Len(result.processes) = 10
    /\ \E z \in ReadablePids :
          /\ Table[z].mem = None
          /\ result.processes[10].pid = z
    /\ \E i \in DOMAIN result.processes : RssOf(result.processes[i].pid) > 0

----------------------------------------------------------------------------
(* Disk list *)

MaxParts == 3

LinuxMounts == {"/", "/boot", "/data"}
WindowsMounts == {"C:\\", "c:\\", "C:/", "D:\\", "d:\\", "\\\\srv\\share", ""}

\* what disk_usage answers per mount point when every query succeeds; the
\* spellings of one drive name the same volume
DiskReadings ==
    [m \in AllMounts |->
        CASE m = "/" -> Usage(60, 100)
          [] m = "/boot" -> Usage(30, 1)
          [] m = "/data" -> Usage(20, 500)
          [] m \in {"C:\\", "c:\\", "C:/"} -> Usage(70, 200)
          [] m \in {"D:\\", "d:\\"} -> Usage(10, 300)
          [] OTHER -> Usage(5, 50)]

\* the volume a mount point names
Volume(m) ==
    CASE m \in {"C:\\", "c:\\", "C:/"} -> "C"
      [] m \in {"D:\\", "d:\\"} -> "D"
      [] OTHER -> m

\* disk_usage with the queries on the volumes in broken failing
UsageWith(broken) ==
    [m \in AllMounts |-> IF Volume(m) \in broken THEN Failing ELSE DiskReadings[m]]

DiskHosts ==
    {[PlainHost EXCEPT !.platform = "linux",
                       !.partitions = [st |-> "ok", mps |-> mps],
                       !.usage = UsageWith(broken)] :
        mps \in SeqsUpTo(LinuxMounts, MaxParts), broken \in SUBSET LinuxMounts}
    \cup {[PlainHost EXCEPT !.platform = "win32",
                            !.partitions = [st |-> "ok", mps |-> mps],
                            !.usage = UsageWith(broken)] :
        mps \in SeqsUpTo(WindowsMounts, MaxParts), broken \in SUBSET {"C", "D", "/"}}
    \cup {[PlainHost EXCEPT !.platform = pf,
                            !.partitions = Failing,
                            !.usage = UsageWith(broken)] :
        pf \in {"linux", "win32"}, broken \in SUBSET {"/", "C"}}

InitDisk ==
    /\ env \in DiskHosts
    /\ pc = "boot"
    /\ result = <<>>
    /\ calls = <<>>

\* gather_info on hosts that differ in the partition list and the usage queries
SpecDisk == InitDisk /\ [][NextGather]_vars

\* the partitions in detection order, and those whose usage can be read
Detected == IF env.partitions.st = "ok" THEN env.partitions.mps ELSE <<>>
Readable(mp) == env.usage[mp].st = "ok"
FirstIndex(mp) == CHOOSE i \in DOMAIN Detected :
                      /\ Volume(Detected[i]) = Volume(mp)
                      /\ \A j \in 1..(i - 1) : Volume(Detected[j]) # Volume(mp)
EntryFor(mp) == [usage |-> env.usage[mp].percent, size |-> env.usage[mp].total]
Stats(entry) == [usage |-> entry.usage, size |-> entry.size]

\* the Linux half of C9
LinuxDiskOrder ==
    LET disks == result.disks
        readable == {Detected[i] : i \in {k \in DOMAIN Detected : Readable(Detected[k])}}
    IN  /\ \A i, j \in DOMAIN disks : disks[i].mountpoint = disks[j].mountpoint => i = j
        /\ \A i \in DOMAIN disks : Stats(disks[i]) = EntryFor(disks[i].mountpoint)
        /\ IF readable # {}
           THEN /\ {disks[i].mountpoint : i \in DOMAIN disks} = readable
                /\ \A i, j \in DOMAIN disks :
                      i < j => FirstIndex(disks[i].mountpoint) < FirstIndex(disks[j].mountpoint)
                /\ \A k \in DOMAIN Detected :
                      (Readable(Detected[k]) /\ \A j \in 1..(k - 1) : ~Readable(Detected[j]))
                          => disks[1].mountpoint = Detected[k]
           ELSE IF Readable("/")
           THEN disks # <<>> /\ disks[1].mountpoint = "/"
           ELSE disks = <<>>

\* the Windows half of C9
WindowsDiskOrder ==
    LET disks == result.disks
    IN  /\ \A i, j \in DOMAIN disks : Volume(disks[i].path) = Volume(disks[j].path) => i = j
        /\ \A i \in DOMAIN disks : Stats(disks[i]) = EntryFor(disks[i].path)
        /\ Readable("C:\\") =>
              /\ disks # <<>>
              /\ disks[1].path = "C:\\"
              /\ \A i, j \in DOMAIN disks :
                    (1 < i /\ i < j) => FirstIndex(disks[i].path) < FirstIndex(disks[j].path)
              /\ \A k \in DOMAIN Detected :
                    (Volume(Detected[k]) = "D" /\ Readable(Detected[k]))
                        => \E i \in DOMAIN disks : Volume(disks[i].path) = "D"

\* C9: the disk list preserves detection order and has no two entries for
\* the same mount point: on Linux the first partition whose usage can be read
\* is the first entry, a partition whose usage query fails is skipped without
\* affecting later ones, and '/' is used only if no partition yielded an entry;
\* on Windows C:\ is the first entry when its usage can be read and is never
\* listed a second time, whatever letter case the enumeration reports it under.
C9_DiskOrder ==
    pc = "returned" =>
        IF env.platform = "linux" THEN LinuxDiskOrder ELSE WindowsDiskOrder

\* Windows reported the system drive in lower case and a second drive twice;
\* the list is C:\ followed by the second drive once
C9_Witness ==
    /\ pc = "returned"
    /\ env.platform = "win32"
    /\ Detected = <<"c:\\", "d:\\", "D:\\">>
    /\ Len(result.disks) = 2
    /\ result.disks[1].path = "C:\\"
    /\ result.disks[2].path = "d:\\"

----------------------------------------------------------------------------
(* Frequency normalization: _safe_float and the kHz files of the cpufreq tree *)

MaxLen == 4

TextChars == {"0", "2", "5", ".", "-", " ", "G"}

\* the strings _safe_float is given, with the "2.30 GHz" of an lscpu field
Texts ==
    SeqsUpTo(TextChars, MaxLen) \cup {<<"2", ".", "3", "0", " ", "G", "H", "z">>}

KhzFiles == {FileBad, File(0), File(2500), File(800000), File(2500000)}

\* one unit with a minimum, a maximum and a scaling_cur_freq file
NormUnits ==
    {[gov |-> FileAbsent, min |-> mn, max |-> mx, scaling_cur |-> sc,
      cpuinfo_cur |-> FileAbsent] : mn \in KhzFiles, mx \in KhzFiles, sc \in KhzFiles}

NormInputs ==
    {[kind |-> "text", val |-> v] :
        v \in {None, Some(Num(Flt(0))), Some(Num(Rat(5, 2))), Some(Num(Flt(-3)))}
              \cup {Some(Str(t)) : t \in Texts}}
    \cup {[kind |-> "tree", sysfs |-> PolicyTree(<<u>>)] : u \in NormUnits}
    \cup {[kind |-> "tree", sysfs |-> PerCpuTree(<<[cpufreq |-> TRUE, unit |-> u]>>)] :
            u \in NormUnits}

InitNormalize ==
    /\ env \in NormInputs
    /\ pc = "start"
    /\ result = <<>>
    /\ calls = <<>>

\* _safe_float(val)
CallSafeFloat ==
    /\ pc = "start"
    /\ env.kind = "text"
    /\ result' = SafeFloat(env.val)
    /\ pc' = "returned"
    /\ UNCHANGED <<env, calls>>

\* _sysfs_cpufreq_policy()
CallSysfsCpufreqPolicy ==
    /\ pc = "start"
    /\ env.kind = "tree"
    /\ result' = SysfsCpufreqPolicy(env.sysfs)
    /\ pc' = "returned"
    /\ UNCHANGED <<env, calls>>

NextNormalize == CallSafeFloat \/ CallSysfsCpufreqPolicy

\* the two normalizing functions applied to bounded inputs
SpecNormalize == InitNormalize /\ [][NextNormalize]_vars

\* t is written as an optional sign, digits, an optional point, and ends in a digit
IsNumberText(t) ==
    LET n == Len(t)
        j0 == IF n >= 1 /\ t[1] \in {"-", "+"} THEN 2 ELSE 1
    IN  /\ n >= j0
        /\ t[n] \in Digits
        /\ \A k \in j0..n : t[k] \in Digits \cup {"."}
        /\ Cardinality({k \in j0..n : t[k] = "."}) <= 1

RECURSIVE TenTo(_)
TenTo(k) == IF k = 0 THEN 1 ELSE 10 * TenTo(k - 1)

\* the digits of t read as one integer, the point ignored
RECURSIVE DigitsAsInt(_)
DigitsAsInt(t) ==
    IF t = <<>> THEN 0
    ELSE LET rest == SubSeq(t, 1, Len(t) - 1)
             last == t[Len(t)]
         IN  IF last \in Digits THEN DigitsAsInt(rest) * 10 + DigitVal(last)
             ELSE DigitsAsInt(rest)

\* the number of digits after the point of t
FractionDigits(t) ==
    IF \E k \in DOMAIN t : t[k] = "."
    THEN Len(t) - (CHOOSE k \in DOMAIN t : t[k] = ".")
    ELSE 0

\* the rational r is the number the text t writes
Denotes(t, r) ==
    r.n * TenTo(FractionDigits(t)) =
        (IF t[1] = "-" THEN -1 ELSE 1) * DigitsAsInt(t) * r.d

\* the first decimal number occurring in s: leftmost start, longest extent
FirstNumberText(s) ==
    LET starts == {i \in DOMAIN s : \E e \in i..Len(s) : IsNumberText(SubSeq(s, i, e))}
        i == CHOOSE x \in starts : \A y \in starts : x <= y
        ends == {e \in i..Len(s) : IsNumberText(SubSeq(s, i, e))}
        e == CHOOSE x \in ends : \A y \in ends : x >= y
    IN  SubSeq(s, i, e)

\* the tree's single unit
NormUnit ==
    IF env.sysfs.cpufreq_dir THEN env.sysfs.policies[1] ELSE env.sysfs.cpus[1].unit

\* the reported field is the file's kHz value divided by 1000, unknown if unreadable
ReportsKhz(file, field) ==
    IF file.st = "ok"
    THEN field # None /\ field[1].n * 1000 = file.khz * field[1].d
    ELSE field = None

\* C11: every kHz value read from the cpufreq tree is reported divided by 1000;
\* _safe_float of a string is the first decimal number occurring in it, None
\* when the string has no digit or the input is None, and a numeric input is
\* returned unchanged; every call returns.
C11_FrequencyNormalization ==
    pc = "returned" =>
        IF env.kind = "tree"
        THEN /\ ReportsKhz(NormUnit.min, result.min_mhz)
             /\ ReportsKhz(NormUnit.max, result.max_mhz)
             /\ ReportsKhz(NormUnit.scaling_cur, result.current_mhz)
        ELSE IF env.val = None THEN result = None
        ELSE IF "num" \in DOMAIN env.val[1] THEN result = Some(env.val[1].num)
        ELSE LET s == env.val[1].str
             IN  IF \A k \in DOMAIN s : s[k] \notin Digits THEN result = None
                 ELSE result # None /\ Denotes(FirstNumberText(s), result[1])

\* "2.30 GHz" gave 2.30
C11_Witness ==
    /\ pc = "returned"
    /\ env.kind = "text"
    /\ env.val = Some(Str(<<"2", ".", "3", "0", " ", "G", "H", "z">>))
    /\ result = Some(Rat(23, 10))

----------------------------------------------------------------------------
(* Vendor and model-name resolution *)

ProcRecord(vendor, name) ==
    [EmptyProc EXCEPT !["vendor_id"] = vendor, !["model name"] = name,
                      !["cpu family"] = Some("23")]

\* /proc/cpuinfo: absent, failing while read, empty, or with one or two records
CpuinfoFiles ==
    {[exists |-> FALSE, readable |-> FALSE, processors |-> <<>>],
     [exists |-> TRUE, readable |-> TRUE, processors |-> <<>>]}
    \cup {[exists |-> TRUE, readable |-> r, processors |-> ps] :
            r \in BOOLEAN,
            ps \in {<<ProcRecord(v, n)>> \o rest :
                       v \in {None, Some(""), Some("GenuineIntel")},
                       n \in {None, Some("Xeon")},
                       rest \in {<<>>, <<ProcRecord(Some("ARM"), Some("Cortex"))>>}}}

VendorDicts ==
    {[EmptyDict EXCEPT !["Vendor ID"] = v, !["Model name"] = n, !["CPU family"] = f,
                       !["Architecture"] = Some("x86_64")] :
        v \in {None, Some(""), Some("AuthenticAMD")},
        n \in {None, Some("EPYC")},
        f \in {None, Some("6")}}

VendorHosts ==
    {[BareHost EXCEPT !.cpuinfo = c, !.lscpu_json = LscpuDoc(d)] :
        c \in CpuinfoFiles, d \in VendorDicts}
    \cup {[BareHost EXCEPT !.cpuinfo = c] : c \in CpuinfoFiles}

InitVendor ==
    /\ env \in VendorHosts
    /\ pc = "start"
    /\ result = <<>>
    /\ calls = <<>>

\* collect_cpu_info on hosts that differ in /proc/cpuinfo and in lscpu's
\* identification fields
SpecVendor == InitVendor /\ [][NextCpu]_vars

\* what the first processor record of /proc/cpuinfo says under key k
FirstRecordField(k) ==
    IF env.cpuinfo.exists /\ env.cpuinfo.readable /\ env.cpuinfo.processors # <<>>
    THEN env.cpuinfo.processors[1][k] ELSE None

\* what lscpu says under key k
LscpuField(k) ==
    IF env.lscpu_json.st = "ok" THEN env.lscpu_json.fields[k] ELSE None

NonEmptyText(x) == x # None /\ x # Some("")

\* the first non-empty of the two sources, unknown when neither has one
FirstNonEmpty(a, b) == IF NonEmptyText(a) THEN a ELSE IF NonEmptyText(b) THEN b ELSE None

\* C12: vendor and model name are resolved from the first processor record of
\* /proc/cpuinfo, then from lscpu, stopping at the first non-empty string; the
\* vendor is a vendor identifier one of the two reported, or None when neither
\* reports one, never a value of another field.
C12_VendorCascade ==
    pc = "returned" =>
        /\ result.vendor_id = FirstNonEmpty(FirstRecordField("vendor_id"),
                                            LscpuField("Vendor ID"))
        /\ result.model_name = FirstNonEmpty(FirstRecordField("model name"),
                                             LscpuField("Model name"))

----------------------------------------------------------------------------
(* Linux GPU resolution: nvidia-smi, then lspci *)

\* nvidia-smi: missing, exiting non-zero, timing out, printing nothing, printing
\* a short line, or printing a four-column line
NvidiaOutcomes ==
    {[st |-> "missing"], [st |-> "nonzero"], [st |-> "timeout"],
     [st |-> "ok", lines |-> <<>>],
     [st |-> "ok", lines |-> << <<NvPart(Some(Flt(5)), "5"), NvPart(None, "x")>> >>],
     [st |-> "ok", lines |-> <<NvLine(Some(Flt(30)), Some(Flt(1500)), Some(Flt(60)), "GeForce")>>],
     [st |-> "ok", lines |-> <<NvLine(None, None, None, "GeForce")>>]}

LspciOutcomes ==
    {[st |-> "raise"],
     [st |-> "ok", lines |-> <<>>],
     [st |-> "ok", lines |-> <<[vga |-> FALSE, parts |-> <<"Host bridge">>]>>],
     [st |-> "ok", lines |-> <<[vga |-> FALSE, parts |-> <<"Host bridge">>],
                               [vga |-> TRUE, parts |-> <<"VGA", "HD Graphics 620">>],
                               [vga |-> TRUE, parts |-> <<"3D", "GeForce MX150">>]>>]}

GpuHosts ==
    {[PlainHost EXCEPT !.nvidia_smi = nv, !.lspci = ls, !.cpu_percent = cp] :
        nv \in NvidiaOutcomes, ls \in LspciOutcomes,
        cp \in {Failing, [st |-> "ok", v |-> Flt(50)]}}

InitGpu ==
    /\ env \in GpuHosts
    /\ pc = "boot"
    /\ result = <<>>
    /\ calls = <<>>

\* Linux.gather_info on hosts that differ in nvidia-smi and lspci
SpecGpu == InitGpu /\ [][NextLinux]_vars

\* nvidia-smi printed a first line of at least four columns
NvidiaYielded ==
    /\ env.nvidia_smi.st = "ok"
    /\ env.nvidia_smi.lines # <<>>
    /\ Len(env.nvidia_smi.lines[1]) >= 4

LspciQueried == \E i \in DOMAIN calls : calls[i] = "lspci -mm"

\* the last field of the first VGA/3D controller line of lspci, if it has one
FirstVgaModel ==
    IF env.lspci.st # "ok" THEN None
    ELSE LET vga == {i \in DOMAIN env.lspci.lines : env.lspci.lines[i].vga}
         IN  IF vga = {} THEN None
             ELSE LET i == CHOOSE x \in vga : \A y \in vga : x <= y
                      parts == env.lspci.lines[i].parts
                  IN  Some(parts[Len(parts)])

\* C13: whenever nvidia-smi yields no reading (missing, non-zero exit, timeout,
\* empty output, a first line of fewer than four fields) lspci is queried and
\* the GPU model is that of the first VGA/3D controller line, usage, frequency
\* and temperature staying unknown (0.0 in the Linux record); lspci is never
\* queried when nvidia-smi yielded a reading.
C13_LspciFallback ==
    pc = "returned" =>
        /\ ~NvidiaYielded =>
              /\ LspciQueried
              /\ result.gpu_model = FirstVgaModel
              /\ result.gpu_usage = Some(Flt(0))
              /\ result.gpu_frequency = Some(Flt(0))
              /\ result.gpu_temperature = Some(Flt(0))
        /\ NvidiaYielded => ~LspciQueried

----------------------------------------------------------------------------
(* main.py: the reporting loop *)

MaxTicks == 3

\* what the endpoint does with one POST: a status, or the client raising
PostOutcomes == {"200", "500", "refused", "timeout"}

\* requests.post raises on these
PostRaises(o) == o \in {"refused", "timeout"}

\* the host h with the endpoint's answers to the coming POSTs
WithNet(h, net) ==
    [f \in DOMAIN h \cup {"net"} |-> IF f = "net" THEN net ELSE h[f]]

LoopHosts ==
    {WithNet([PlainHost EXCEPT !.platform = pf], net) :
        pf \in {"linux", "win32"}, net \in SeqsUpTo(PostOutcomes, MaxTicks)}

InitLoop ==
    /\ env \in LoopHosts
    /\ pc = "boot"
    /\ result = <<>>
    /\ calls = <<>>

\* print(info); requests.post(endpoint, json=info); the status branch; back to
\* the top of "while True". An exception of the client leaves main().
SendSnapshot ==
    /\ pc = "returned"
    /\ env.net # <<>>
    /\ LET o == Head(env.net)
       IN  IF PostRaises(o)
           THEN /\ pc' = "terminated"
                /\ calls' = calls
           ELSE /\ pc' = "start"
                /\ calls' = Append(calls, IF o = "200"
                                          THEN "Sysinfo successfully sent to the server."
                                          ELSE "Failed to send sysinfo.")
    /\ env' = [env EXCEPT !.net = Tail(@)]
    /\ UNCHANGED result

NextLoop == ImportModules \/ GatherLinux \/ GatherWindows \/ SendSnapshot

\* main(): collect, send, repeat, for as many POSTs as the endpoint answers
SpecLoop == InitLoop /\ [][NextLoop]_vars

\* C14: the reporting loop never terminates because of a delivery failure:
\* after a failed send (non-200 status, connection refused, timeout, any
\* exception of the HTTP client) the failure is logged and the loop goes on to
\* collect the next snapshot.
C14_DeliveryFailureNotFatal ==
    [][(pc = "returned" /\ pc' # "returned")
          => (pc' = "start" /\ Len(calls') = Len(calls) + 1)]_vars

----------------------------------------------------------------------------
(* windows/CPU.py *)

RegNames == {"ProcessorNameString", "VendorIdentifier", "Identifier", "~MHz", "FeatureSet"}

\* a registry value: missing (FileNotFoundError), failing, a string or an integer
RegMissing == [st |-> "missing"]
RegError == [st |-> "error"]
RegStr(text) == [st |-> "str", v |-> text]
RegInt(n) == [st |-> "int", v |-> n]

\* _get(name): the value, None when QueryValueEx raises
RegGet(values, name) ==
    IF values[name].st \in {"str", "int"} THEN Some(values[name]) ELSE None

\* bool(x) of an Optional registry value
RegTruthy(x) == x # None /\ x[1].v # (IF x[1].st = "str" THEN "" ELSE 0)

\* _get(name) or info[name]
RegOr(x, old) == IF RegTruthy(x) THEN Some(x[1].v) ELSE old

RegIsInt(x) == x # None /\ x[1].st = "int"

NoRegInfo ==
    [brand |-> None, vendor |-> None, identifier |-> None, base_mhz |-> None,
     feature_set |-> None]

\* the body of "with winreg.OpenKey(...) as k" for an opened view
ReadView(values, info) ==
    [brand |-> RegOr(RegGet(values, "ProcessorNameString"), info.brand),
     vendor |-> RegOr(RegGet(values, "VendorIdentifier"), info.vendor),
     identifier |-> RegOr(RegGet(values, "Identifier"), info.identifier),
     base_mhz |-> IF RegIsInt(RegGet(values, "~MHz"))
                  THEN Some(Flt(RegGet(values, "~MHz")[1].v)) ELSE info.base_mhz,
     feature_set |-> IF RegIsInt(RegGet(values, "FeatureSet"))
                     THEN Some(RegGet(values, "FeatureSet")[1].v) ELSE info.feature_set]

\* ReadRegistryViews without the break after an opened view
RECURSIVE ReadRegistryViewsNoBreak(_, _, _)
ReadRegistryViewsNoBreak(views, i, info) ==
    IF i > Len(views) THEN [info |-> info, opened |-> <<>>]
    ELSE LET here == IF views[i].open = "ok" THEN ReadView(views[i].values, info) ELSE info
             rest == ReadRegistryViewsNoBreak(views, i + 1, here)
         IN  [info |-> rest.info, opened |-> <<views[i].name>> \o rest.opened]

\* for access in views: try OpenKey ... break; except: continue
RECURSIVE ReadRegistryViews(_, _, _)
ReadRegistryViews(views, i, info) ==
    IF i > Len(views) THEN [info |-> info, opened |-> <<>>]
    ELSE IF views[i].open = "ok"
    THEN [info |-> ReadView(views[i].values, info), opened |-> <<views[i].name>>]
    ELSE LET rest == ReadRegistryViews(views, i + 1, info)
         IN  [info |-> rest.info, opened |-> <<views[i].name>> \o rest.opened]

\* _read_registry_cpu_info: the info dict and the views it tried to open, in order
ReadRegistryCpuInfo(e) ==
    IF ~e.has_winreg THEN [info |-> NoRegInfo, opened |-> <<>>]
    ELSE ReadRegistryViews(<<e.view64, e.view_default>>, 1, NoRegInfo)

\* _safe_cpu_count
SafeCpuCount(e, logical) ==
    IF e.psutil
    THEN IF e.cpu_count.st = "ok"
         THEN (IF logical THEN e.cpu_count.logical ELSE e.cpu_count.physical)
         ELSE None
    ELSE IF logical THEN e.os_cpu_count ELSE None

\* _collect_freq
CollectFreq(e) ==
    LET f == e.cpu_freq
        read == e.psutil /\ f.st = "ok"
        base == ReadRegistryCpuInfo(e).info.base_mhz
    IN  [current_mhz |-> IF read THEN f.current ELSE None,
         min_mhz |-> IF read /\ f.min # None /\ RatLess(Flt(0), f.min[1]) THEN f.min ELSE None,
         max_mhz |-> IF read /\ f.max # None /\ RatLess(Flt(0), f.max[1]) THEN f.max ELSE None,
         base_mhz |-> base]

\* _collect_usage
CollectUsage(e) ==
    IF ~e.psutil THEN [total_percent |-> None, per_cpu_percent |-> None]
    ELSE IF e.cpu_percent.st = "ok"
    THEN LET per_cpu == e.cpu_percent.per_cpu
         IN  [total_percent |->
                  IF per_cpu # <<>> THEN Some(RatDivInt(SumRat(per_cpu), Len(per_cpu)))
                  ELSE Some(e.cpu_percent.instant),
              per_cpu_percent |-> Some(per_cpu)]
    ELSE [total_percent |-> IF e.cpu_percent.st = "percpu_raises"
                            THEN Some(e.cpu_percent.instant) ELSE None,
          per_cpu_percent |-> None]

\* _collect_times
CollectTimes(e) ==
    [total |-> IF e.psutil /\ e.cpu_times.st = "ok" THEN Some(e.cpu_times.total) ELSE None,
     per_cpu |-> IF e.psutil /\ e.cpu_times.st = "ok" THEN Some(e.cpu_times.per_cpu)
                 ELSE None]

\* _collect_stats
CollectStats(e) ==
    IF e.psutil /\ e.cpu_stats.st = "ok"
    THEN [ctx_switches |-> Some(e.cpu_stats.ctx_switches),
          interrupts |-> Some(e.cpu_stats.interrupts),
          software_interrupts |-> Some(e.cpu_stats.soft_interrupts),
          syscalls |-> Some(e.cpu_stats.syscalls),
          dpcs |-> None]
    ELSE [ctx_switches |-> None, interrupts |-> None, software_interrupts |-> None,
          syscalls |-> None, dpcs |-> None]

\* windows collect_cpu_info: the record returned for the host e
WinCollectCpuInfoResult(e) ==
    LET reg == ReadRegistryCpuInfo(e).info
    IN  [timestamp |-> e.clock,
         platform |-> [system |-> "Windows", release |-> e.release, version |-> e.version,
                       architecture |-> e.machine,
                       processor_string |-> IF e.processor # "" THEN Some(e.processor)
                                            ELSE reg.identifier],
         brand |-> reg.brand,
         vendor |-> reg.vendor,
         identifier |-> reg.identifier,
         feature_set_mask |-> reg.feature_set,
         cores |-> [physical |-> SafeCpuCount(e, FALSE), logical |-> SafeCpuCount(e, TRUE)],
         frequency |-> CollectFreq(e),
         usage_percent |-> CollectUsage(e),
         times |-> CollectTimes(e),
         stats |-> CollectStats(e)]

\* the sources one pass of windows collect_cpu_info samples, in order
WinCollectCpuInfoCalls(e) ==
    LET reg == ReadRegistryCpuInfo(e).opened
        P(name) == IF e.psutil THEN <<name>> ELSE <<>>
    IN  reg \o <<"platform.machine", "platform.processor", "time.time",
                 "platform.system", "platform.release", "platform.version">>
        \o (IF e.psutil THEN <<"psutil.cpu_count", "psutil.cpu_count">>
            ELSE <<"os.cpu_count", "os.cpu_count">>)
        \o P("psutil.cpu_freq") \o reg
        \o P("psutil.cpu_percent") \o P("psutil.cpu_times") \o P("psutil.cpu_stats")

\* one run of windows/CPU.py collect_cpu_info
WinCollectCpuInfo ==
    /\ pc = "start_windows"
    /\ result' = WinCollectCpuInfoResult(env)
    /\ calls' = WinCollectCpuInfoCalls(env)
    /\ pc' = "returned"
    /\ UNCHANGED env

----------------------------------------------------------------------------
(* Hosts for windows/CPU.py *)

\* the values under CentralProcessor\0 as one registry view shows them
RegValueSets(brand) ==
    {[n \in RegNames |-> RegMissing],
     [n \in RegNames |->
        CASE n = "ProcessorNameString" -> RegStr(brand)
          [] n = "VendorIdentifier" -> RegStr("GenuineIntel")
          [] n = "Identifier" -> RegStr("Intel64 Family 6")
          [] n = "~MHz" -> RegInt(2400)
          [] OTHER -> RegInt(7)],
     [n \in RegNames |->
        CASE n = "ProcessorNameString" -> RegStr(brand)
          [] n = "VendorIdentifier" -> RegStr("")
          [] n = "Identifier" -> RegError
          [] n = "~MHz" -> RegStr("2400")
          [] OTHER -> RegMissing]}

\* a registry view: OpenKey succeeds, or raises FileNotFoundError or another error
RegViews(name, brand) ==
    {[name |-> name, open |-> o, values |-> [n \in RegNames |-> RegMissing]] :
        o \in {"notfound", "denied"}}
    \cup {[name |-> name, open |-> "ok", values |-> v] : v \in RegValueSets(brand)}

WinBareHost ==
    [has_winreg |-> TRUE,
     view64 |-> [name |-> "KEY_WOW64_64KEY", open |-> "notfound",
                 values |-> [n \in RegNames |-> RegMissing]],
     view_default |-> [name |-> "KEY_READ", open |-> "notfound",
                       values |-> [n \in RegNames |-> RegMissing]],
     psutil |-> TRUE,
     cpu_count |-> [st |-> "ok", logical |-> Some(8), physical |-> Some(4)],
     os_cpu_count |-> Some(8),
     cpu_freq |-> [st |-> "ok", current |-> Some(Flt(2400)), min |-> Some(Flt(0)),
                   max |-> Some(Flt(3000))],
     cpu_percent |-> [st |-> "ok", per_cpu |-> <<Flt(10), Flt(30)>>, instant |-> Flt(20)],
     cpu_times |-> [st |-> "ok", total |-> "times", per_cpu |-> <<"times">>],
     cpu_stats |-> [st |-> "ok", ctx_switches |-> 1, interrupts |-> 2,
                    soft_interrupts |-> 0, syscalls |-> 3],
     release |-> "10",
     version |-> "10.0.19045",
     machine |-> "AMD64",
     processor |-> "Intel64 Family 6",
     clock |-> 1]

WinCpuHosts ==
    {[WinBareHost EXCEPT !.has_winreg = w, !.view64 = a, !.view_default = b,
                         !.psutil = p, !.processor = pr] :
        w \in BOOLEAN,
        a \in RegViews("KEY_WOW64_64KEY", "Intel Core i7"),
        b \in RegViews("KEY_READ", "Intel Core i7 (default view)"),
        p \in BOOLEAN, pr \in {"", "Intel64 Family 6"}}

InitWinCpu ==
    /\ env \in WinCpuHosts
    /\ pc = "start_windows"
    /\ result = <<>>
    /\ calls = <<>>

NextWinCpu == WinCollectCpuInfo

\* windows collect_cpu_info on hosts that differ in the two registry views
SpecWinCpu == InitWinCpu /\ [][NextWinCpu]_vars

\* the registry views the first _read_registry_cpu_info of the pass tried to open
ViewsTried ==
    LET stop == CHOOSE i \in DOMAIN calls : calls[i] = "platform.machine"
    IN  SubSeq(calls, 1, stop - 1)

\* the registry fields of the returned record
RegFields ==
    [brand |-> result.brand, vendor |-> result.vendor, identifier |-> result.identifier,
     base_mhz |-> result.frequency.base_mhz, feature_set |-> result.feature_set_mask]

\* what one view alone gives: a non-empty string, an integer, else None
TextOf(v) == IF v.st = "str" /\ v.v # "" THEN Some(v.v) ELSE None
IntOf(v) == IF v.st = "int" THEN Some(v.v) ELSE None
FieldsOf(view) ==
    [brand |-> TextOf(view.values["ProcessorNameString"]),
     vendor |-> TextOf(view.values["VendorIdentifier"]),
     identifier |-> TextOf(view.values["Identifier"]),
     base_mhz |-> IF IntOf(view.values["~MHz"]) = None THEN None
                  ELSE Some(Flt(IntOf(view.values["~MHz"])[1])),
     feature_set |-> IntOf(view.values["FeatureSet"])]

\* C18: _read_registry_cpu_info tries the 64-bit view before the default view;
\* the default view is opened only if opening the 64-bit view failed; once a
\* view has been opened no further view is tried, even when values were missing
\* in it; when no view can be opened every field is None, and the call returns.
C18_RegistryViews ==
    pc = "returned" =>
        IF ~env.has_winreg THEN ViewsTried = <<>> /\ RegFields = NoRegInfo
        ELSE IF env.view64.open = "ok"
        THEN ViewsTried = <<"KEY_WOW64_64KEY">> /\ RegFields = FieldsOf(env.view64)
        ELSE /\ ViewsTried = <<"KEY_WOW64_64KEY", "KEY_READ">>
             /\ RegFields = IF env.view_default.open = "ok" THEN FieldsOf(env.view_default)
                            ELSE NoRegInfo

\* the 64-bit view opened with values missing while the default view has them
\* all: the default view was not tried and the missing fields stayed None
C18_Witness ==
    /\ pc = "returned"
    /\ env.has_winreg
    /\ env.view64.open = "ok"
    /\ env.view64.values["~MHz"].st = "str"
    /\ env.view_default.open = "ok"
    /\ env.view_default.values["~MHz"].st = "int"
    /\ ViewsTried = <<"KEY_WOW64_64KEY">>
    /\ result.frequency.base_mhz = None
    /\ result.brand = Some("Intel Core i7")

----------------------------------------------------------------------------
(* The capture timestamp *)

StampHosts == HyperHosts \cup WinCpuHosts

InitStamp ==
    /\ env \in StampHosts
    /\ pc = IF env \in WinCpuHosts THEN "start_windows" ELSE "start"
    /\ result = <<>>
    /\ calls = <<>>

NextStamp == CollectCpuInfo \/ WinCollectCpuInfo

\* collect_cpu_info of linux/CPU.py and of windows/CPU.py
SpecStamp == InitStamp /\ [][NextStamp]_vars

\* C15: the capture timestamp of the CPU snapshot is taken before any adapter
\* is sampled in that pass, on Linux and on Windows: the clock is the first
\* source the pass reads.
C15_TimestampFirst ==
    pc = "returned" => calls[1] = "time.time"

----------------------------------------------------------------------------
(* psutil as an optional library *)

\* C16: when psutil is not installed the agent on Linux still starts (the
\* collector modules import) and every tick returns a complete record; the
\* absence of psutil is neither a startup nor a per-tick failure.
C16_PsutilOptional ==
    (env.platform = "linux" /\ ~env.psutil) =>
        /\ pc \notin {"import_error", "raised"}
        /\ pc = "returned" => DOMAIN result = RecordKeys

----------------------------------------------------------------------------
(* Windows GPU resolution: nvidia-smi, then GPUtil, then WMI *)

GpuDevice(load, clock, mem, temp, name) ==
    [load |-> load, clock |-> clock, memoryClock |-> mem, temperature |-> temp, name |-> name]

\* GPUtil: not installed, getGPUs() raising, no device, or a first device
GputilOutcomes ==
    {[installed |-> FALSE],
     [installed |-> TRUE, st |-> "raise"],
     [installed |-> TRUE, st |-> "ok", gpus |-> <<>>],
     [installed |-> TRUE, st |-> "ok",
      gpus |-> <<GpuDevice(Some(Rat(1, 4)), None, Some(Flt(7000)), Some(Flt(70)),
                           Some("Radeon"))>>],
     [installed |-> TRUE, st |-> "ok",
      gpus |-> <<GpuDevice(None, None, None, None, Some("Radeon"))>>],
     [installed |-> TRUE, st |-> "ok",
      gpus |-> <<GpuDevice(None, None, None, None, None)>>]}

\* the WMI client: not installed, failing to connect, or answering
\* Win32_VideoController() with an error, no controller, or a first controller
WmiOutcomes ==
    {[installed |-> FALSE, connects |-> FALSE],
     [installed |-> TRUE, connects |-> FALSE]}
    \cup {[installed |-> TRUE, connects |-> TRUE, video |-> v,
           os |-> Failing, processor |-> Failing] :
            v \in {Failing, [st |-> "ok", names |-> <<>>],
                   [st |-> "ok", names |-> <<None>>],
                   [st |-> "ok", names |-> <<Some("Intel UHD")>>]}}

WinGpuHosts ==
    {[PlainHost EXCEPT !.platform = "win32", !.nvidia_smi = nv, !.gputil = gu, !.wmi = wi] :
        nv \in NvidiaOutcomes \cup
               {[st |-> "ok", lines |-> <<NvLine(None, Some(Flt(1500)), None, "")>>],
                [st |-> "ok", lines |-> <<NvLine(None, None, None, "")>>]},
        gu \in GputilOutcomes, wi \in WmiOutcomes}

InitWinGpu ==
    /\ env \in WinGpuHosts
    /\ pc = "boot"
    /\ result = <<>>
    /\ calls = <<>>

NextWindows == ImportModules \/ GatherWindows

\* Windows.gather_info on hosts that differ in the three GPU sources
SpecWinGpu == InitWinGpu /\ [][NextWindows]_vars

\* what each GPU source reports on this host, in priority order
GpuSourceNames == <<"nvidia-smi", "GPUtil", "WMI">>
GpuSources ==
    <<GpuViaNvidiaSmi(env.nvidia_smi), GpuViaGputil(env.gputil), GpuViaWmi(env.wmi)>>

\* the sources that reported at least one field
Reporting ==
    {i \in 1..3 : \E f \in {"usage", "frequency", "temperature", "model"} :
                      GpuSources[i][f] # None}

ReportedGpu ==
    [usage |-> result.gpu_usage, frequency |-> result.gpu_frequency,
     temperature |-> result.gpu_temperature, model |-> result.gpu_model]

\* C17: Windows GPU resolution asks nvidia-smi, then GPUtil, then WMI and takes
\* all four fields from the first source that reported at least one of them:
\* fields are never blended across sources, and no source after the winning
\* one is consulted.
C17_FirstSourceWins ==
    pc = "returned" =>
        IF Reporting = {}
        THEN ReportedGpu = NoGpu /\ calls = GpuSourceNames
        ELSE LET w == CHOOSE i \in Reporting : \A j \in Reporting : i <= j
             IN  /\ ReportedGpu = GpuSources[w]
                 /\ calls = SubSeq(GpuSourceNames, 1, w)

\* nvidia-smi reported only the clock, GPUtil could supply usage, temperature
\* and model: the record has the clock and nothing else, GPUtil was not asked
C17_Witness ==
    /\ pc = "returned"
    /\ GpuSources[1] = [NoGpu EXCEPT !.frequency = Some(Flt(1500))]
    /\ GpuSources[2].usage = Some(Flt(25))
    /\ GpuSources[2].model = Some("Radeon")
    /\ ReportedGpu = [NoGpu EXCEPT !.frequency = Some(Flt(1500))]
    /\ calls = <<"nvidia-smi">>

----------------------------------------------------------------------------
(* The availability flags *)

\* some scanned unit of the cpufreq tree has a governor, a minimum or a maximum
TreeProducedReading ==
    \E i \in DOMAIN ScannedUnits :
        LET u == ScannedUnits[i]
        IN  \/ u.gov.st = "ok" /\ u.gov.text # ""
            \/ u.min.st = "ok"
            \/ u.max.st = "ok"

\* C19: sources.sysfs_cpufreq is true only if the cpufreq tree itself produced
\* a reading (a governor, a min or a max) in this pass; it is false whenever the
\* tree was absent or unreadable, whatever psutil or lscpu reported.
C19_SysfsFlagMeansTree ==
    pc = "returned" => (result.sources.sysfs_cpufreq => TreeProducedReading)

----------------------------------------------------------------------------
(* The nvidia-smi line parse, field by field *)

\* a numeric column of the line: its text and what float() makes of it
NvColumns(good) ==
    {NvPart(Some(Flt(good)), "number"), NvPart(Some(Flt(0)), "0"),
     NvPart(None, "[N/A]"), NvPart(None, "")}

\* four-column lines, and lines with a fifth column
NvLines ==
    {<<u, f, t, NvPart(None, m)>> \o extra :
        u \in NvColumns(30), f \in NvColumns(1500), t \in NvColumns(60),
        m \in {"GeForce", ""}, extra \in {<<>>, <<NvPart(None, "RTX")>>}}

NvParseInputs ==
    {[kind |-> k, nvidia_smi |-> [st |-> "ok", lines |-> <<l>> \o more],
      lspci |-> [st |-> "raise"]] :
        k \in {"linux", "windows"}, l \in NvLines,
        more \in {<<>>, <<NvLine(Some(Flt(99)), Some(Flt(99)), Some(Flt(99)), "second")>>}}

InitNvParse ==
    /\ env \in NvParseInputs
    /\ pc = "start"
    /\ result = <<>>
    /\ calls = <<>>

\* the GPU section of Linux.gather_info (linux.py 88-134)
CallLinuxGpu ==
    /\ pc = "start"
    /\ env.kind = "linux"
    /\ result' = LinuxGpu(env.nvidia_smi, env.lspci)
    /\ pc' = "returned"
    /\ UNCHANGED <<env, calls>>

\* Windows._get_gpu_via_nvidia_smi()
CallGpuViaNvidiaSmi ==
    /\ pc = "start"
    /\ env.kind = "windows"
    /\ result' = GpuViaNvidiaSmi(env.nvidia_smi)
    /\ pc' = "returned"
    /\ UNCHANGED <<env, calls>>

NextNvParse == CallLinuxGpu \/ CallGpuViaNvidiaSmi

\* the two nvidia-smi adapters applied to lines of four or more columns
SpecNvParse == InitNvParse /\ [][NextNvParse]_vars

\* column i of the first line
NvColumn(i) == env.nvidia_smi.lines[1][i]

----------------------------------------------------------------------------
(* Socket, core and thread counts from lscpu *)

\* what lscpu may print in a count field: nothing, an integer, or something else
CountTexts ==
    {None, Some(Str(<<>>)), Some(Str(<<"2">>)), Some(Str(<<"1", "6">>)),
     Some(Str(<<"-">>)), Some(Str(<<"2", ".", "5">>)), Some(Str(<<"G">>))}

CountDicts ==
    {[EmptyDict EXCEPT !["Socket(s)"] = a, !["Core(s) per socket"] = b,
                       !["Thread(s) per core"] = c, !["Architecture"] = Some("x86_64")] :
        a \in CountTexts, b \in CountTexts, c \in CountTexts}

CountHosts == {[BareHost EXCEPT !.lscpu_json = LscpuDoc(d)] : d \in CountDicts}

InitCounts ==
    /\ env \in CountHosts
    /\ pc = "start"
    /\ result = <<>>
    /\ calls = <<>>

\* collect_cpu_info on hosts that differ in lscpu's three count fields
SpecCounts == InitCounts /\ [][NextCpu]_vars

\* the integer a count field writes, None when it is missing, empty or no integer
CountOf(k) ==
    LET x == env.lscpu_json.fields[k]
    IN  IF x = None THEN None
        ELSE LET t == x[1].str
             IN  IF t # <<>> /\ \A i \in DOMAIN t : t[i] \in Digits
                 THEN Some(DigitsAsInt(t)) ELSE None

\* C21: socket count, cores per socket and threads per core are each resolved
\* from their own lscpu field by string-to-integer coercion: a missing, empty
\* or non-integer value makes that one field None, the pass returns, and the
\* other two are unaffected.
C21_CountsIndependent ==
    pc = "returned" =>
        /\ result.sockets = CountOf("Socket(s)")
        /\ result.cores_per_socket = CountOf("Core(s) per socket")
        /\ result.threads_per_core = CountOf("Thread(s) per core")

\* the socket count did not parse, the thread count was missing, and the cores
\* per socket are reported
C21_Witness ==
    /\ pc = "returned"
    /\ env.lscpu_json.fields["Socket(s)"] = Some(Str(<<"2", ".", "5">>))
    /\ env.lscpu_json.fields["Thread(s) per core"] = None
    /\ result.sockets = None
    /\ result.cores_per_socket = Some(16)
    /\ result.threads_per_core = None

----------------------------------------------------------------------------
(* Windows CPU temperature: psutil sensors, then WMI *)

\* what the OpenHardwareMonitor namespace answers to Sensor()
WmiSensorOutcomes ==
    {Failing,
     [st |-> "ok", sensors |-> <<>>],
     [st |-> "ok", sensors |-> <<[type |-> "Fan", value |-> Flt(900)]>>],
     [st |-> "ok", sensors |-> <<[type |-> "Fan", value |-> Flt(900)],
                                 [type |-> "Temperature", value |-> Flt(55)]>>]}

WmiClients ==
    {[installed |-> FALSE, connects |-> FALSE],
     [installed |-> TRUE, connects |-> FALSE]}
    \cup {[installed |-> TRUE, connects |-> TRUE, video |-> Failing, os |-> Failing,
           processor |-> Failing, sensors |-> x] : x \in WmiSensorOutcomes}

PsutilSensorOutcomes ==
    {Failing,
     [st |-> "ok", groups |-> <<>>],
     [st |-> "ok", groups |-> <<[name |-> "acpitz", entries |-> <<>>]>>],
     [st |-> "ok", groups |-> <<[name |-> "acpitz", entries |-> <<None>>]>>],
     [st |-> "ok", groups |-> <<[name |-> "acpitz", entries |-> <<None>>],
                                [name |-> "coretemp", entries |-> <<Some(Flt(48))>>]>>]}

WinTempHosts ==
    {[PlainHost EXCEPT !.platform = "win32", !.has_sensors = hs, !.sensors = se, !.wmi = w] :
        hs \in BOOLEAN, se \in PsutilSensorOutcomes, w \in WmiClients}

InitWinTemp ==
    /\ env \in WinTempHosts
    /\ pc = "boot"
    /\ result = <<>>
    /\ calls = <<>>

\* Windows.gather_info on hosts that differ in the two temperature sources
SpecWinTemp == InitWinTemp /\ [][NextWindows]_vars

\* psutil has a sensor group whose first entry carries a reading
PsutilHasTemperature ==
    /\ env.has_sensors
    /\ env.sensors.st = "ok"
    /\ \E i \in DOMAIN env.sensors.groups :
          /\ env.sensors.groups[i].entries # <<>>
          /\ env.sensors.groups[i].entries[1] # None

\* the values of the WMI sensors of type Temperature
WmiTemperatures ==
    IF WmiClient(env.wmi) /\ env.wmi.sensors.st = "ok"
    THEN {env.wmi.sensors.sensors[i].value :
            i \in {k \in DOMAIN env.wmi.sensors.sensors :
                      env.wmi.sensors.sensors[k].type = "Temperature"}}
    ELSE {}

\* C22: Windows CPU temperature comes from the psutil sensors first and then
\* from WMI: when psutil yields none and the WMI client reports a sensor of type
\* Temperature, that sensor's value is returned; None is returned only when
\* neither source has a reading.
C22_WmiTemperatureFallback ==
    pc = "returned" =>
        /\ PsutilHasTemperature => result.cpu_temperature # None
        /\ (~PsutilHasTemperature /\ WmiTemperatures # {})
              => \E v \in WmiTemperatures : result.cpu_temperature = Some(v)
        /\ result.cpu_temperature = None
              => (~PsutilHasTemperature /\ WmiTemperatures = {})

----------------------------------------------------------------------------
(* Primary IP resolution *)

\* the socket-level operations of the ip block, in order (linux.py 22-34,
\* windows.py 36-49); sock.at names the call that raised
IpSocketOps(sock) ==
    IF sock.st = "ok"
    THEN <<"socket", "settimeout", "connect", "getsockname", "close">>
    ELSE IF sock.at = "socket" THEN <<"gethostbyname">>
    ELSE IF sock.at = "connect"
    THEN <<"socket", "settimeout", "connect", "close", "gethostbyname">>
    ELSE <<"socket", "settimeout", "connect", "getsockname", "close", "gethostbyname">>

SocketOutcomes ==
    {[st |-> "ok", addr |-> a, at |-> "none"] :
        a \in {"10.0.0.5", "192.168.1.7", "172.16.0.2", "127.0.0.1"}}
    \cup {[st |-> "raise", at |-> w] : w \in {"socket", "connect", "getsockname"}}

HostnameOutcomes ==
    {[st |-> "ok", addr |-> a] : a \in {"10.0.0.6", "127.0.1.1", "127.0.0.1"}}
    \cup {Failing}

IpHosts ==
    {[PlainHost EXCEPT !.platform = pf, !.sock = so, !.resolve = re] :
        pf \in {"linux", "win32"}, so \in SocketOutcomes, re \in HostnameOutcomes}

InitIp ==
    /\ env \in IpHosts
    /\ pc = "boot"
    /\ result = <<>>
    /\ calls = <<>>

\* the ip block of Linux.gather_info (linux.py 20-34)
CallLinuxIp ==
    /\ pc = "start"
    /\ env.platform = "linux"
    /\ result' = [ip |-> ResolveIp(env.sock, env.resolve)]
    /\ calls' = IpSocketOps(env.sock)
    /\ pc' = "returned"
    /\ UNCHANGED env

\* Windows._get_ip(hostname)
CallGetIp ==
    /\ pc = "start"
    /\ env.platform = "win32"
    /\ result' = [ip |-> ResolveIp(env.sock, env.resolve)]
    /\ calls' = IpSocketOps(env.sock)
    /\ pc' = "returned"
    /\ UNCHANGED env

NextIp == ImportModules \/ GatherLinux \/ GatherWindows \/ CallLinuxIp \/ CallGetIp

\* the ip block alone and inside the whole pass, on hosts that differ in what
\* the socket lookup and the hostname resolution do
SpecIp == InitIp /\ [][NextIp]_vars

\* C23: the reported ip is the socket's local address when the socket lookup
\* succeeds, else the hostname's address when that resolves, else "127.0.0.1";
\* it is never empty, and every socket that was created is closed afterwards.
C23_IpCascade ==
    pc = "returned" =>
        /\ env.sock.st = "ok" => result.ip = env.sock.addr
        /\ (env.sock.st # "ok" /\ env.resolve.st = "ok") => result.ip = env.resolve.addr
        /\ (env.sock.st # "ok" /\ env.resolve.st # "ok") => result.ip = "127.0.0.1"
        /\ result.ip # ""
        /\ \A i \in DOMAIN calls :
              calls[i] = "socket" => \E j \in DOMAIN calls : j > i /\ calls[j] = "close"
        /\ (\E i \in DOMAIN calls : calls[i] = "gethostbyname") => env.sock.st # "ok"

\* a created socket failed to connect, was closed, and the hostname's address
\* was reported
C23_Witness ==
    /\ pc = "returned"
    /\ env.sock.st = "raise"
    /\ env.sock.at = "connect"
    /\ env.resolve.st = "ok"
    /\ result.ip = env.resolve.addr
    /\ calls = <<"socket", "settimeout", "connect", "close", "gethostbyname">>

----------------------------------------------------------------------------
(* Linux CPU temperature cascade *)

CascadeNames == {"coretemp", "cpu_thermal", "k10temp", "acpitz"}

\* a sensor group of psutil.sensors_temperatures(): none, one or two readings;
\* the first reading tells the groups apart
SensorGroups ==
    {[name |-> n, entries |-> en] :
        n \in {"coretemp"}, en \in {<<>>, <<Some(Flt(40))>>, <<Some(Flt(40)), Some(Flt(99))>>}}
    \cup {[name |-> n, entries |-> en] :
        n \in {"cpu_thermal"}, en \in {<<>>, <<Some(Flt(50))>>}}
    \cup {[name |-> n, entries |-> en] :
        n \in {"k10temp"}, en \in {<<>>, <<Some(Flt(60))>>}}
    \cup {[name |-> n, entries |-> en] :
        n \in {"acpitz"}, en \in {<<>>, <<Some(Flt(30))>>}}

\* sensors_temperatures() raising, or returning up to two groups in dict order
CascadeSensors ==
    {Failing, [st |-> "ok", groups |-> <<>>]}
    \cup {[st |-> "ok", groups |-> <<g>>] : g \in SensorGroups}
    \cup {[st |-> "ok", groups |-> gh] :
            gh \in {x \in SensorGroups \X SensorGroups : x[1].name # x[2].name}}

CascadeDirs ==
    {[isdir |-> FALSE, listable |-> FALSE, files |-> <<>>],
     ThermalDir([n \in {"thermal_zone0"} |-> ZoneFile(45000)]),
     ThermalDir([n \in {"thermal_zone0", "thermal_zone1"} |->
                    IF n = "thermal_zone0" THEN [st |-> "unreadable"] ELSE ZoneFile(52000)]),
     ThermalDir([n \in {"thermal_zone0", "thermal_zone1"} |->
                    IF n = "thermal_zone0" THEN [st |-> "garbage"] ELSE ZoneFile(52)]),
     ThermalDir([n \in {"thermal_zone0"} |-> [st |-> "empty"]])}

CascadeHosts ==
    {[PlainHost EXCEPT !.sensors = se, !.has_sensors = hs, !.thermal = th] :
        se \in CascadeSensors, hs \in BOOLEAN, th \in CascadeDirs}

InitCascade ==
    /\ env \in CascadeHosts
    /\ pc = "boot"
    /\ result = <<>>
    /\ calls = <<>>

\* Linux.gather_info on hosts that differ in the psutil sensor groups and in
\* the thermal zones
SpecCascade == InitCascade /\ [][NextLinux]_vars

\* the sensor groups psutil handed over (none when the call is missing or raises)
SensorGroupsSeen ==
    IF env.has_sensors /\ env.sensors.st = "ok" THEN env.sensors.groups ELSE <<>>

\* the positions of the non-empty groups, all of them or those called n
NonEmptyAt(names) ==
    {i \in DOMAIN SensorGroupsSeen :
        SensorGroupsSeen[i].name \in names /\ SensorGroupsSeen[i].entries # <<>>}

FirstOf(names) ==
    LET i == CHOOSE k \in NonEmptyAt(names) : \A j \in NonEmptyAt(names) : k <= j
    IN  SensorGroupsSeen[i].entries[1]

\* the temperature the cascade of the five sources names
CascadeTemperature ==
    IF NonEmptyAt({"coretemp"}) # {} THEN FirstOf({"coretemp"})
    ELSE IF NonEmptyAt({"cpu_thermal"}) # {} THEN FirstOf({"cpu_thermal"})
    ELSE IF NonEmptyAt({"k10temp"}) # {} THEN FirstOf({"k10temp"})
    ELSE IF NonEmptyAt(CascadeNames) # {} THEN FirstOf(CascadeNames)
    ELSE IF env.thermal.isdir /\ ReadableZones # {}
    THEN Some(IF RawReading > 1000 THEN Rat(RawReading, 1000) ELSE Flt(RawReading))
    ELSE None

\* the record carries 0.0 where no source gave a temperature (linux.py 299)
CascadeReported ==
    IF CascadeTemperature = None THEN Some(Flt(0)) ELSE CascadeTemperature

\* C24: Linux CPU temperature is the first reading of the psutil group
\* 'coretemp', else 'cpu_thermal', else 'k10temp', else of the first non-empty
\* psutil group, else of the first thermal zone in name order whose temp file
\* is readable and non-empty, unreadable and unparseable zones being skipped.
C24_TemperatureCascade ==
    pc = "returned" => result.cpu_temperature = CascadeReported

----------------------------------------------------------------------------
(* Record shape across the two platforms *)

\* the key sets of the entries of a disk list
EntryKeySets(disks) == {DOMAIN disks[i] : i \in DOMAIN disks}

\* the disk list the other platform's gather_info builds from the same readings
OtherPlatformDisks ==
    IF env.platform = "linux" THEN WindowsDisks(env.psutil, env)
    ELSE LinuxDisks(env.psutil, env)

\* C25: Linux.gather_info and Windows.gather_info produce records of the same
\* shape: the same top-level keys on every run, and disk entries with one key
\* set on both platforms and on every code path, so the mount path of an entry
\* is read under one field name.
C25_SameRecordShape ==
    pc = "returned" =>
        /\ DOMAIN result = RecordKeys
        /\ Cardinality(EntryKeySets(result.disks) \cup EntryKeySets(OtherPlatformDisks)) <= 1

====
